---- MODULE Spec2Model ----
(***************************************************************************)
(* Model of scripts/release_new_version.py: the release orchestrator       *)
(* (main), the RollbackManager, the version engine (get_current_versions,  *)
(* increment_versions, update_project_versions) and the text transforms    *)
(* they rest on.                                                           *)
(*                                                                         *)
(* Text is a sequence of cells, each a string.  A cell is one character    *)
(* ("1", ".", "v", "a") or one fixed piece of text that the code only ever *)
(* treats as a whole:                                                      *)
(*   "CR"   \r                    "LF"   \n                                *)
(*   "BS{"  buildSettings = {     "{" "}" ";"  themselves                  *)
(*   "ID="  PRODUCT_BUNDLE_IDENTIFIER =  (with the blanks around =)        *)
(*   "CPV=" CURRENT_PROJECT_VERSION =    "MV="  MARKETING_VERSION =        *)
(*   "##U"  ## Unreleased         "##V"  ## Version                        *)
(*   "x"    any other character                                            *)
(* A file on disk is such a sequence of bytes; NoFile stands for a path    *)
(* that does not exist.                                                    *)
(***************************************************************************)
EXTENDS Integers, Sequences, FiniteSets, TLC

VARIABLES
    fs,             \* path -> bytes on disk, or NoFile
    backup_files,   \* RollbackManager.backup_files: sequence of <<path, text>> in insertion order
    created_files,  \* RollbackManager.created_files
    temp_dirs,      \* RollbackManager.temp_dirs
    rblog,          \* the steps rollback() attempted, in order, each with its outcome
    rollbackCalls,  \* how many times rollback() was invoked
    firstBackup,    \* path -> text captured by the first backup_file(path) call, or Unset
    opsLeft,        \* API client: calls still allowed before it stops
    run,            \* main(): its position, locals, exit status and what it printed
    args,           \* the parsed command line
    git,            \* the local repository and the remote, as the git commands left them
    fin,            \* arguments of the function under study
    fout            \* its result

rmVars == <<fs, backup_files, created_files, temp_dirs, rblog, rollbackCalls>>
clientVars == <<firstBackup, opsLeft>>
orchVars == <<run, args, git>>
fnVars == <<fin, fout>>
vars == <<fs, backup_files, created_files, temp_dirs, rblog, rollbackCalls,
          firstBackup, opsLeft, run, args, git, fin, fout>>

----------------------------------------------------------------------------
(* Text                                                                    *)

NoFile == <<"NOFILE">>
Idle == <<"IDLE">>

\* the result of a function that raised, and of one not called yet
Raised(kind) == [ok |-> FALSE, err |-> kind]
NotRun == [ok |-> FALSE, err |-> "not run"]

\* Text-mode read (open(path, "r"), Path.read_text): universal newlines turn
\* "\r\n" and a lone "\r" into "\n".
RECURSIVE ReadText(_)
ReadText(b) ==
    IF b = <<>> THEN <<>>
    ELSE IF Head(b) = "CR"
         THEN <<"LF">> \o
              ReadText(IF Len(b) > 1 /\ b[2] = "LF" THEN SubSeq(b, 3, Len(b)) ELSE Tail(b))
         ELSE <<Head(b)>> \o ReadText(Tail(b))

\* Text-mode write (open(path, "w"), Path.write_text): "\n" is written as
\* os.linesep, which is "\n" on the platform the script runs on (macOS).
WriteText(s) == s

\* a file checked out with "\r\n" line endings
RECURSIVE WithCRLF(_)
WithCRLF(s) ==
    IF s = <<>> THEN <<>>
    ELSE (IF Head(s) = "LF" THEN <<"CR", "LF">> ELSE <<Head(s)>>) \o WithCRLF(Tail(s))

----------------------------------------------------------------------------
(* RollbackManager                                                         *)

TrackedFiles == {"project.pbxproj", "CHANGELOG.md", "appcast.xml"}
ScratchPaths == {"out.dmg", "dmg_contents"}
Paths == TrackedFiles \cup ScratchPaths

Exists(fsys, p) == fsys[p] # NoFile

\* dict lookup helpers over the insertion-ordered ledger
LedgerKeys(ledger) == {ledger[i][1] : i \in 1..Len(ledger)}
LedgerIndex(ledger, p) == CHOOSE i \in 1..Len(ledger) : ledger[i][1] = p
LedgerGet(ledger, p) == ledger[LedgerIndex(ledger, p)][2]

\* self.backup_files[filepath] = content: a new key is appended, an existing
\* key keeps its place and takes the new value.
DictSet(ledger, p, content) ==
    IF p \in LedgerKeys(ledger)
    THEN [ledger EXCEPT ![LedgerIndex(ledger, p)] = <<p, content>>]
    ELSE Append(ledger, <<p, content>>)

\* RollbackManager.backup_file
BackupFile(fsys, ledger, p) ==
    IF Exists(fsys, p) THEN DictSet(ledger, p, ReadText(fsys[p])) ELSE ledger

\* What one step of rollback() can do: a restore can succeed, fail at open
\* (file untouched) or fail after open(..., "w") truncated the file; a delete
\* or a directory removal can succeed or fail.
RestoreOutcomes == {"ok", "open_fails", "write_fails"}
RemoveOutcomes == {"ok", "fails"}

RestoreOne(fsys, p, content, o) ==
    CASE o = "ok" -> [fsys EXCEPT ![p] = WriteText(content)]
      [] o = "write_fails" -> [fsys EXCEPT ![p] = <<>>]
      [] OTHER -> fsys

\* if path.exists(): path.unlink() / shutil.rmtree(path)
RemoveOne(fsys, p, o) ==
    IF Exists(fsys, p) /\ o = "ok" THEN [fsys EXCEPT ![p] = NoFile] ELSE fsys

RemoveReport(fsys, p, o) ==
    IF ~Exists(fsys, p) THEN "absent" ELSE o

\* A loop of rollback() whose first failing step ends it: what the loops
\* would do without the try/except around each step.
RECURSIVE RestoreAllAbort(_, _, _, _)
RestoreAllAbort(fsys, ledger, i, ro) ==
    IF i > Len(ledger) THEN [fs |-> fsys, log |-> <<>>]
    ELSE LET p == ledger[i][1]
             f1 == RestoreOne(fsys, p, ledger[i][2], ro[i])
             rest == IF ro[i] = "ok" THEN RestoreAllAbort(f1, ledger, i + 1, ro)
                     ELSE [fs |-> f1, log |-> <<>>]
         IN [fs |-> rest.fs, log |-> <<<<"restore", p, ro[i]>>>> \o rest.log]

\* for filepath, content in self.backup_files.items(): the exception a failed
\* write_text raises is caught inside the loop body, so the loop goes on.
RECURSIVE RestoreAll(_, _, _, _)
RestoreAll(fsys, ledger, i, ro) ==
    IF i > Len(ledger) THEN [fs |-> fsys, log |-> <<>>]
    ELSE LET p == ledger[i][1]
             f1 == RestoreOne(fsys, p, ledger[i][2], ro[i])
             rest == RestoreAll(f1, ledger, i + 1, ro)
         IN [fs |-> rest.fs, log |-> <<<<"restore", p, ro[i]>>>> \o rest.log]

\* for filepath in self.created_files / for dirpath in self.temp_dirs
RECURSIVE RemoveAll(_, _, _, _, _)
RemoveAll(fsys, paths, i, o, what) ==
    IF i > Len(paths) THEN [fs |-> fsys, log |-> <<>>]
    ELSE LET rest == RemoveAll(RemoveOne(fsys, paths[i], o[i]), paths, i + 1, o, what)
         IN [fs |-> rest.fs,
             log |-> <<<<what, paths[i], RemoveReport(fsys, paths[i], o[i])>>>> \o rest.log]

\* RollbackManager.rollback: restore files, delete created files, remove
\* directories.
RollbackResult(fsys, ledger, created, dirs, ro, do, to) ==
    LET r1 == RestoreAll(fsys, ledger, 1, ro)
        r2 == RemoveAll(r1.fs, created, 1, do, "delete")
        r3 == RemoveAll(r2.fs, dirs, 1, to, "rmtree")
    IN [fs |-> r3.fs, log |-> r1.log \o r2.log \o r3.log]

----------------------------------------------------------------------------
(* A client of the RollbackManager API: any sequence of backup_file,       *)
(* track_created_file, track_temp_dir calls and writes to the files,       *)
(* ended by one rollback().                                                *)

MaxOps == 4

Unset == <<"UNSET">>
TextA == <<"x">>
TextB == <<"x", "LF", "x">>
TextC == <<"x", "x">>
RMContents == {TextA, TextB, TextC}
RMFiles == {"CHANGELOG.md", "appcast.xml"}

NoteFirstBackup(first, fsys, p) ==
    IF first[p] = Unset /\ Exists(fsys, p)
    THEN [first EXCEPT ![p] = ReadText(fsys[p])]
    ELSE first

RMInit ==
    /\ fs \in {f \in [Paths -> RMContents \cup {NoFile}] :
                 /\ \A p \in ScratchPaths : f[p] = NoFile
                 /\ f["project.pbxproj"] = TextA
                 /\ f["CHANGELOG.md"] # NoFile}
    /\ backup_files = <<>>
    /\ created_files = <<>>
    /\ temp_dirs = <<>>
    /\ rblog = <<>>
    /\ rollbackCalls = 0
    /\ firstBackup = [p \in Paths |-> Unset]
    /\ opsLeft = MaxOps
    /\ run = Idle /\ args = Idle /\ git = Idle /\ fin = Idle /\ fout = NotRun

RMBackupFile(p) ==
    /\ opsLeft > 0 /\ rollbackCalls = 0
    /\ backup_files' = BackupFile(fs, backup_files, p)
    /\ firstBackup' = NoteFirstBackup(firstBackup, fs, p)
    /\ opsLeft' = opsLeft - 1
    /\ UNCHANGED <<fs, created_files, temp_dirs, rblog, rollbackCalls, orchVars, fnVars>>

\* the client, or anything else, writes or creates a file
RMWrite(p, c) ==
    /\ opsLeft > 0 /\ rollbackCalls = 0
    /\ fs[p] # c
    /\ fs' = [fs EXCEPT ![p] = c]
    /\ opsLeft' = opsLeft - 1
    /\ UNCHANGED <<backup_files, created_files, temp_dirs, rblog, rollbackCalls,
                   firstBackup, orchVars, fnVars>>

RMTrackCreatedFile(p) ==
    /\ opsLeft > 0 /\ rollbackCalls = 0
    /\ created_files' = Append(created_files, p)
    /\ opsLeft' = opsLeft - 1
    /\ UNCHANGED <<fs, backup_files, temp_dirs, rblog, rollbackCalls, firstBackup,
                   orchVars, fnVars>>

RMTrackTempDir(p) ==
    /\ opsLeft > 0 /\ rollbackCalls = 0
    /\ temp_dirs' = Append(temp_dirs, p)
    /\ opsLeft' = opsLeft - 1
    /\ UNCHANGED <<fs, backup_files, created_files, rblog, rollbackCalls, firstBackup,
                   orchVars, fnVars>>

RMRollback ==
    /\ rollbackCalls = 0
    /\ \E ro \in [1..Len(backup_files) -> RestoreOutcomes],
          do \in [1..Len(created_files) -> RemoveOutcomes],
          to \in [1..Len(temp_dirs) -> RemoveOutcomes] :
          LET r == RollbackResult(fs, backup_files, created_files, temp_dirs, ro, do, to)
          IN /\ fs' = r.fs
             /\ rblog' = r.log
    /\ rollbackCalls' = rollbackCalls + 1
    /\ UNCHANGED <<backup_files, created_files, temp_dirs, clientVars, orchVars, fnVars>>

RMNext ==
    \/ \E p \in RMFiles : RMBackupFile(p)
    \/ \E p \in RMFiles, c \in RMContents : RMWrite(p, c)
    \/ \E p \in ScratchPaths : RMWrite(p, TextA)
    \/ \E p \in ScratchPaths : RMTrackCreatedFile(p)
    \/ \E p \in ScratchPaths : RMTrackTempDir(p)
    \/ RMRollback

SpecRM == RMInit /\ [][RMNext]_vars

\* C7: the ledger keeps the text captured by the first backup_file(f) call,
\* whatever is written to f and however often backup_file(f) is called again,
\* and a successful restore by rollback() leaves f with that text.
C7_FirstBackupWins ==
    \A p \in RMFiles :
        firstBackup[p] # Unset =>
            /\ p \in LedgerKeys(backup_files)
            /\ LedgerGet(backup_files, p) = firstBackup[p]
            /\ (rollbackCalls = 1 /\ \E i \in 1..Len(rblog) : rblog[i] = <<"restore", p, "ok">>)
                   => ReadText(fs[p]) = firstBackup[p]

Failed(entry) == entry[3] \in {"open_fails", "write_fails", "fails"}

RollbackPlan ==
    [i \in 1..Len(backup_files) |-> <<"restore", backup_files[i][1]>>]
    \o [i \in 1..Len(created_files) |-> <<"delete", created_files[i]>>]
    \o [i \in 1..Len(temp_dirs) |-> <<"rmtree", temp_dirs[i]>>]

\* C8: rollback() attempts every ledger entry, in the order restore files,
\* delete created files, remove directories, whichever of the steps fail;
\* each step that did not fail took effect.
C8_RollbackAttemptsAll ==
    rollbackCalls = 1 =>
        /\ [i \in 1..Len(rblog) |-> <<rblog[i][1], rblog[i][2]>>] = RollbackPlan
        /\ \A i \in 1..Len(rblog) :
              /\ (rblog[i][1] = "restore" /\ rblog[i][3] = "ok")
                     => fs[rblog[i][2]] = WriteText(LedgerGet(backup_files, rblog[i][2]))
              /\ (rblog[i][1] # "restore" /\ rblog[i][3] = "ok") => ~Exists(fs, rblog[i][2])

C8_Witness ==
    /\ rollbackCalls = 1
    /\ \E i, j, k \in 1..Len(rblog) :
          /\ i < j /\ j < k
          /\ rblog[i][1] = "restore" /\ Failed(rblog[i])
          /\ rblog[j][1] = "delete" /\ rblog[j][3] = "ok"
          /\ rblog[k][1] = "rmtree"

----------------------------------------------------------------------------
(* Strings, numbers and the regular expressions of the version engine      *)

Digits == {"0", "1", "2", "3", "4", "5", "6", "7", "8", "9"}
\* "NL" is the one character "\n" inside a string value; "SP" a blank.
Whitespace == {"NL", "SP"}

DigitVal(c) ==
    CASE c = "0" -> 0 [] c = "1" -> 1 [] c = "2" -> 2 [] c = "3" -> 3 [] c = "4" -> 4
      [] c = "5" -> 5 [] c = "6" -> 6 [] c = "7" -> 7 [] c = "8" -> 8 [] c = "9" -> 9

DigitChar(n) ==
    CASE n = 0 -> "0" [] n = 1 -> "1" [] n = 2 -> "2" [] n = 3 -> "3" [] n = 4 -> "4"
      [] n = 5 -> "5" [] n = 6 -> "6" [] n = 7 -> "7" [] n = 8 -> "8" [] n = 9 -> "9"

\* str(n), the f-string form of a non-negative int
RECURSIVE DigitsOf(_)
DigitsOf(n) == IF n < 10 THEN <<DigitChar(n)>> ELSE DigitsOf(n \div 10) \o <<DigitChar(n % 10)>>

RECURSIVE DigitsValue(_, _)
DigitsValue(ds, acc) ==
    IF ds = <<>> THEN acc ELSE DigitsValue(Tail(ds), 10 * acc + DigitVal(Head(ds)))

RECURSIVE LStrip(_)
LStrip(s) == IF s # <<>> /\ Head(s) \in Whitespace THEN LStrip(Tail(s)) ELSE s
RECURSIVE RStrip(_)
RStrip(s) ==
    IF s # <<>> /\ s[Len(s)] \in Whitespace THEN RStrip(SubSeq(s, 1, Len(s) - 1)) ELSE s

\* int(s) of a string of digits: surrounding whitespace is ignored
PyInt(s) == DigitsValue(LStrip(RStrip(s)), 0)

\* s.split(sep)
RECURSIVE Split(_, _)
Split(s, sep) ==
    IF \A i \in 1..Len(s) : s[i] # sep THEN <<s>>
    ELSE LET k == CHOOSE i \in 1..Len(s) : s[i] = sep /\ \A j \in 1..(i - 1) : s[j] # sep
         IN <<SubSeq(s, 1, k - 1)>> \o Split(SubSeq(s, k + 1, Len(s)), sep)

IsDigits(s) == s # <<>> /\ \A i \in 1..Len(s) : s[i] \in Digits

\* \d+\.\d+\.\d+ matching all of s
IsThreePart(s) ==
    LET parts == Split(s, ".")
    IN Len(parts) = 3 /\ \A i \in 1..3 : IsDigits(parts[i])

\* validate_version: re.match(r"^\d+\.\d+\.\d+$", version).  Without
\* re.MULTILINE, $ matches at the end of the string and also just before a
\* newline that ends the string.
ValidateVersion(version) ==
    \/ IsThreePart(version)
    \/ /\ version # <<>>
       /\ version[Len(version)] = "NL"
       /\ IsThreePart(SubSeq(version, 1, Len(version) - 1))


\* increment_versions
IncrementVersions(current_project, marketing, version_type) ==
    IF version_type = "skip" THEN [ok |-> TRUE, project |-> current_project, marketing |-> marketing]
    ELSE IF ~ValidateVersion(marketing) THEN Raised("ReleaseError")
    ELSE LET parts == Split(marketing, ".")
         IN IF Len(parts) # 3 THEN Raised("ReleaseError")
            ELSE LET major == PyInt(parts[1])
                     minor == PyInt(parts[2])
                     patch == PyInt(parts[3])
                 IN CASE version_type = "major" ->
                           [ok |-> TRUE, project |-> current_project + 100,
                            marketing |-> DigitsOf(major + 1) \o <<".", "0", ".", "0">>]
                      [] version_type = "minor" ->
                           [ok |-> TRUE, project |-> current_project + 10,
                            marketing |-> DigitsOf(major) \o <<".">> \o DigitsOf(minor + 1)
                                          \o <<".", "0">>]
                      [] OTHER ->
                           [ok |-> TRUE, project |-> current_project + 1,
                            marketing |-> DigitsOf(major) \o <<".">> \o DigitsOf(minor)
                                          \o <<".">> \o DigitsOf(patch + 1)]

----------------------------------------------------------------------------
(* The project descriptor: get_current_versions, update_project_versions   *)

\* Python's s[a:b], s[:b], s[a:] with 0-based, possibly negative, clamped indices
PyIndex(s, i) == IF i < 0 THEN (IF i + Len(s) < 0 THEN 0 ELSE i + Len(s))
                 ELSE (IF i > Len(s) THEN Len(s) ELSE i)
PySlice(s, a, b) == SubSeq(s, PyIndex(s, a) + 1, PyIndex(s, b))
PyAt(s, pos) == s[pos + 1]

\* sub in s
Contains(s, sub) ==
    \E i \in 1..(Len(s) - Len(sub) + 1) : SubSeq(s, i, i + Len(sub) - 1) = sub

\* the number of cells from s[k] on that are in allowed
RECURSIVE RunLen(_, _, _)
RunLen(s, k, allowed) ==
    IF k <= Len(s) /\ s[k] \in allowed THEN 1 + RunLen(s, k + 1, allowed) ELSE 0

\* the length of the match of  <key>[allowed]+;  at s[k], 0 if there is none
FieldMatchLen(s, k, key, allowed) ==
    IF s[k] # key THEN 0
    ELSE LET n == RunLen(s, k + 1, allowed)
         IN IF n >= 1 /\ k + 1 + n <= Len(s) /\ s[k + 1 + n] = ";" THEN n + 2 ELSE 0

FieldMatches(s, key, allowed) == {k \in 1..Len(s) : FieldMatchLen(s, k, key, allowed) > 0}

\* re.search(r"<key>([allowed]+);", s).group(1), <<>> if there is no match
SearchField(s, key, allowed) ==
    IF FieldMatches(s, key, allowed) = {} THEN <<>>
    ELSE LET k == CHOOSE i \in FieldMatches(s, key, allowed) :
                      \A j \in FieldMatches(s, key, allowed) : i <= j
         IN SubSeq(s, k + 1, k + FieldMatchLen(s, k, key, allowed) - 2)

\* re.sub(r"<key>[allowed]+;", repl, s): every match, left to right
RECURSIVE SubField(_, _, _, _, _)
SubField(s, k, key, allowed, repl) ==
    IF k > Len(s) THEN <<>>
    ELSE LET n == FieldMatchLen(s, k, key, allowed)
         IN IF n > 0 THEN repl \o SubField(s, k + n, key, allowed, repl)
            ELSE <<s[k]>> \o SubField(s, k + 1, key, allowed, repl)

VersionCharSet == Digits \cup {"."}

\* f"PRODUCT_BUNDLE_IDENTIFIER = {bundle_identifier};" in settings_block
HasBundleId(block, bundle_identifier) ==
    Contains(block, <<"ID=">> \o bundle_identifier \o <<";">>)

FirstAfter(text, i, cell) ==
    IF \E j \in (i + 1)..Len(text) : text[j] = cell
    THEN CHOOSE j \in (i + 1)..Len(text) : text[j] = cell /\ \A m \in (i + 1)..(j - 1) : text[m] # cell
    ELSE 0

\* re.finditer(r"buildSettings\s*=\s*\{([^}]+)\};", content, re.DOTALL): the
\* groups of the matches, left to right, no two overlapping.  A match runs
\* from a "BS{" over at least one cell other than "}" to the first "}", which
\* a ";" must follow.
RECURSIVE SettingsGroups(_, _)
SettingsGroups(text, i) ==
    IF i > Len(text) THEN <<>>
    ELSE IF text[i] # "BS{" THEN SettingsGroups(text, i + 1)
    ELSE LET j == FirstAfter(text, i, "}")
         IN IF j >= i + 2 /\ j + 1 <= Len(text) /\ text[j + 1] = ";"
            THEN <<SubSeq(text, i + 1, j - 1)>> \o SettingsGroups(text, j + 2)
            ELSE SettingsGroups(text, i + 1)

\* the loop of get_current_versions: current_version (-1 for None) and
\* marketing_version (<<>> for None) live across the blocks
RECURSIVE ScanGroups(_, _, _, _, _)
ScanGroups(groups, k, bundle_identifier, current_version, marketing_version) ==
    IF k > Len(groups)
    THEN [current_version |-> current_version, marketing_version |-> marketing_version]
    ELSE IF ~HasBundleId(groups[k], bundle_identifier)
    THEN ScanGroups(groups, k + 1, bundle_identifier, current_version, marketing_version)
    ELSE LET cm == SearchField(groups[k], "CPV=", Digits)
             mm == SearchField(groups[k], "MV=", VersionCharSet)
             cv == IF cm # <<>> THEN PyInt(cm) ELSE current_version
             mv == IF mm # <<>> THEN mm ELSE marketing_version
         IN IF cv # -1 /\ mv # <<>>
            THEN [current_version |-> cv, marketing_version |-> mv]
            ELSE ScanGroups(groups, k + 1, bundle_identifier, cv, mv)

\* get_current_versions, on the text already read from the file
GetCurrentVersions(content, bundle_identifier) ==
    LET r == ScanGroups(SettingsGroups(content, 1), 1, bundle_identifier, -1, <<>>)
    IN IF r.current_version = -1 \/ r.marketing_version = <<>>
       THEN Raised("ReleaseError")
       ELSE [ok |-> TRUE, project |-> r.current_version, marketing |-> r.marketing_version]

Opens(cell) == cell \in {"{", "BS{"}

\* find_matching_brace: the while loop from pos with count open braces
RECURSIVE FindMatchingBraceFrom(_, _, _)
FindMatchingBraceFrom(text, pos, count) ==
    IF pos < Len(text) /\ count > 0
    THEN FindMatchingBraceFrom(text, pos + 1,
             IF Opens(PyAt(text, pos)) THEN count + 1
             ELSE IF PyAt(text, pos) = "}" THEN count - 1 ELSE count)
    ELSE IF count = 0 THEN pos - 1 ELSE -1

FindMatchingBrace(text, start_pos) == FindMatchingBraceFrom(text, start_pos + 1, 1)

\* the 0-based positions of the opening braces of the matches of
\* re.finditer(r"buildSettings\s*=\s*\{", content), in order
RECURSIVE BlockStarts(_, _)
BlockStarts(content, i) ==
    IF i > Len(content) THEN <<>>
    ELSE (IF content[i] = "BS{" THEN <<i - 1>> ELSE <<>>) \o BlockStarts(content, i + 1)

\* the two re.sub calls on a block
\* the two assignments put in front of the block instead of substituted
UpdateBlockInserting(settings_block, new_project, new_marketing) ==
    <<"CPV=">> \o DigitsOf(new_project) \o <<";", "MV=">> \o new_marketing \o <<";">>
        \o settings_block

\* the two re.sub calls on a block
UpdateBlock(settings_block, new_project, new_marketing) ==
    SubField(SubField(settings_block, 1, "CPV=", Digits,
                      <<"CPV=">> \o DigitsOf(new_project) \o <<";">>),
             1, "MV=", VersionCharSet, <<"MV=">> \o new_marketing \o <<";">>)

\* the loop left at the first block that holds the bundle identifier
RECURSIVE UpdateLoopFirstOnly(_, _, _, _, _, _, _, _)
UpdateLoopFirstOnly(content, bundle_identifier, new_project, new_marketing, starts, k, modified_content, offset) ==
    IF k > Len(starts) THEN modified_content
    ELSE LET start == starts[k]
             end == FindMatchingBrace(content, start)
             settings_block == PySlice(content, start + 1, end)
         IN IF end = -1 \/ ~HasBundleId(settings_block, bundle_identifier)
            THEN UpdateLoopFirstOnly(content, bundle_identifier, new_project, new_marketing,
                                     starts, k + 1, modified_content, offset)
            ELSE PySlice(modified_content, 0, start + 1 + offset)
                    \o SubField(SubField(settings_block, 1, "CPV=", Digits,
                                         <<"CPV=">> \o DigitsOf(new_project) \o <<";">>),
                                1, "MV=", VersionCharSet, <<"MV=">> \o new_marketing \o <<";">>)
                    \o PySlice(modified_content, end + offset, Len(modified_content))

\* the for loop of update_project_versions over the matches
RECURSIVE UpdateLoop(_, _, _, _, _, _, _, _)
UpdateLoop(content, bundle_identifier, new_project, new_marketing, starts, k, modified_content, offset) ==
    IF k > Len(starts) THEN modified_content
    ELSE LET start == starts[k]
             end == FindMatchingBrace(content, start)
             settings_block == PySlice(content, start + 1, end)
             updated_block == UpdateBlock(settings_block, new_project, new_marketing)
         IN IF end = -1 \/ ~HasBundleId(settings_block, bundle_identifier)
            THEN UpdateLoop(content, bundle_identifier, new_project, new_marketing,
                            starts, k + 1, modified_content, offset)
            ELSE UpdateLoop(content, bundle_identifier, new_project, new_marketing,
                            starts, k + 1,
                            PySlice(modified_content, 0, start + 1 + offset)
                                \o updated_block
                                \o PySlice(modified_content, end + offset, Len(modified_content)),
                            offset + Len(updated_block) - Len(settings_block))

\* update_project_versions, from the text read to the text written
UpdateProjectVersions(content, bundle_identifier, new_project, new_marketing) ==
    UpdateLoop(content, bundle_identifier, new_project, new_marketing,
               BlockStarts(content, 1), 1, content, 0)

\* the blocks for which find_matching_brace returns -1
UnbalancedBlocks(content) ==
    {k \in 1..Len(BlockStarts(content, 1)) :
        FindMatchingBrace(content, BlockStarts(content, 1)[k]) = -1}

\* What a call of update_project_versions ends with: the loop goes on to
\* the next match when end == -1 and the function has no raise statement,
\* so every call gets to the write at the end and returns None.
UpdateProjectVersionsOutcome(content, bundle_identifier, new_project, new_marketing) ==
    [ok |-> TRUE, wrote |-> TRUE,
     skipped |-> Cardinality(UnbalancedBlocks(content))]

----------------------------------------------------------------------------
(* The changelog: process_changelog                                        *)

\* the cells that start a line with "## "
HeaderCells == {"##U", "##V", "##"}

\* (?=\n## |$) at 1-based position e of text: a newline followed by "## ",
\* the end of the text, or the newline that ends the text
UnreleasedEnds(text, e) ==
    \/ e > Len(text)
    \/ e = Len(text) /\ text[e] = "LF"
    \/ e < Len(text) /\ text[e] = "LF" /\ text[e + 1] \in HeaderCells

\* the 1-based position of the "##U" of re.search(r"## Unreleased\n(.*?)(?=\n## |$)"),
\* 0 if there is no match
UnreleasedStart(text) ==
    LET hits == {i \in 1..(Len(text) - 1) : text[i] = "##U" /\ text[i + 1] = "LF"}
    IN IF hits = {} THEN 0 ELSE CHOOSE i \in hits : \A j \in hits : i <= j

\* group(1): the shortest text after "## Unreleased\n" at whose end the
\* lookahead holds
UnreleasedGroup(text) ==
    LET i == UnreleasedStart(text)
        e == CHOOSE k \in (i + 2)..(Len(text) + 1) :
                 UnreleasedEnds(text, k) /\ \A m \in (i + 2)..(k - 1) : ~UnreleasedEnds(text, m)
    IN SubSeq(text, i + 2, e - 1)

LineSpace == {"LF", "SP", "NL"}
RECURSIVE StripCells(_)
StripCells(s) ==
    IF s # <<>> /\ Head(s) \in LineSpace THEN StripCells(Tail(s))
    ELSE IF s # <<>> /\ s[Len(s)] \in LineSpace THEN StripCells(SubSeq(s, 1, Len(s) - 1))
    ELSE s

\* f"## Version {new_marketing} ({new_project})"
NewHeader(new_project, new_marketing) ==
    <<"##V">> \o new_marketing \o <<"SP", "(">> \o DigitsOf(new_project) \o <<")">>

\* content.replace("## Unreleased", new_header, 1)
ReplaceFirstUnreleased(content, header) ==
    IF \A i \in 1..Len(content) : content[i] # "##U" THEN content
    ELSE LET k == CHOOSE i \in 1..Len(content) :
                      content[i] = "##U" /\ \A j \in 1..(i - 1) : content[j] # "##U"
         IN SubSeq(content, 1, k - 1) \o header \o SubSeq(content, k + 1, Len(content))

RECURSIVE Join(_, _)
Join(lines, sep) ==
    IF Len(lines) = 0 THEN <<>>
    ELSE IF Len(lines) = 1 THEN lines[1]
    ELSE lines[1] \o <<sep>> \o Join(Tail(lines), sep)

\* lines.insert(i, "## Unreleased"); lines.insert(i + 1, "") at the first line
\* that is the new header
InsertUnreleased(lines, header) ==
    LET hits == {i \in 1..Len(lines) : StripCells(lines[i]) = header}
    IN IF hits = {} THEN lines
       ELSE LET k == CHOOSE i \in hits : \A j \in hits : i <= j
            IN SubSeq(lines, 1, k - 1) \o << <<"##U">>, <<>> >> \o SubSeq(lines, k, Len(lines))

\* process_changelog, from the text read: the release notes returned and the
\* text written, or the ReleaseError of a changelog without the section
ProcessChangelog(content, new_project, new_marketing) ==
    IF UnreleasedStart(content) = 0 THEN Raised("ReleaseError")
    ELSE LET header == NewHeader(new_project, new_marketing)
             updated == ReplaceFirstUnreleased(content, header)
         IN [ok |-> TRUE,
             changelog_items |-> StripCells(UnreleasedGroup(content)),
             updated_content |-> Join(InsertUnreleased(Split(updated, "LF"), header), "LF")]

----------------------------------------------------------------------------
(* The update feed: update_appcast.  A feed file is the cell "<channel>"   *)
(* followed by the tags of the channel's children; "<rss>" alone is a feed *)
(* without channel, "<<" a file that is not XML.                           *)

AppcastPath == "appcast.xml"

FeedBlank == {"CR", "LF"}

\* etree.parse with remove_blank_text: the children of the channel
RECURSIVE FeedChildren(_)
FeedChildren(cells) ==
    IF cells = <<>> THEN <<>>
    ELSE (IF Head(cells) \in FeedBlank \cup {"<channel>"} THEN <<>> ELSE <<Head(cells)>>)
         \o FeedChildren(Tail(cells))

IsItem(tag) == tag \in {"item", "newitem"}

\* the loop without the break at the first item
RECURSIVE InsertIndexWithoutBreak(_, _, _)
InsertIndexWithoutBreak(children, i, insert_index) ==
    IF i >= Len(children) THEN insert_index
    ELSE IF PyAt(children, i) \in {"title", "link", "description", "language"}
         THEN InsertIndexWithoutBreak(children, i + 1, i + 1)
    ELSE InsertIndexWithoutBreak(children, i + 1, insert_index)

\* the loop that finds insert_index (0-based) over the children
RECURSIVE InsertIndex(_, _, _)
InsertIndex(children, i, insert_index) ==
    IF i >= Len(children) THEN insert_index
    ELSE IF PyAt(children, i) \in {"title", "link", "description", "language"}
         THEN InsertIndex(children, i + 1, i + 1)
    ELSE IF IsItem(PyAt(children, i)) THEN insert_index
    ELSE InsertIndex(children, i + 1, insert_index)

\* tree.write(..., pretty_print=True): one element per line
RECURSIVE FeedBytes(_)
FeedBytes(children) ==
    IF children = <<>> THEN <<>> ELSE <<Head(children), "LF">> \o FeedBytes(Tail(children))

\* update_appcast from the bytes parsed to the bytes written
UpdateAppcast(bytes) ==
    IF \E i \in 1..Len(bytes) : bytes[i] = "<<" THEN Raised("Exception")
    ELSE IF \A i \in 1..Len(bytes) : bytes[i] # "<channel>" THEN Raised("ReleaseError")
    ELSE LET children == FeedChildren(bytes)
             k == InsertIndex(children, 0, 0)
         IN [ok |-> TRUE,
             bytes |-> <<"<channel>", "LF">>
                       \o FeedBytes(PySlice(children, 0, k) \o <<"newitem">>
                                    \o PySlice(children, k, Len(children)))]

VersionTypes == {"major", "minor", "patch", "skip"}

----------------------------------------------------------------------------
(* increment_versions applied to every build number, version string and    *)
(* increment kind within the bounds                                        *)

MaxVersionLen == 6
VersionChars == {"1", "9", ".", "v", "NL"}
BuildNumbers == {0, 41}

RECURSIVE StringsUpTo(_, _)
StringsUpTo(chars, n) ==
    IF n = 0 THEN {<<>>}
    ELSE LET shorter == StringsUpTo(chars, n - 1)
         IN shorter \cup {Append(s, c) : s \in shorter, c \in chars}

VerInit ==
    /\ fin \in {[current_project |-> b, marketing |-> m, version_type |-> k] :
                  b \in BuildNumbers, m \in StringsUpTo(VersionChars, MaxVersionLen),
                  k \in VersionTypes}
    /\ fout = NotRun
    /\ fs = Idle /\ backup_files = Idle /\ created_files = Idle /\ temp_dirs = Idle
    /\ rblog = Idle /\ rollbackCalls = 0 /\ firstBackup = Idle /\ opsLeft = 0
    /\ run = Idle /\ args = Idle /\ git = Idle

VerApply ==
    /\ fout = NotRun
    /\ fout' = IncrementVersions(fin.current_project, fin.marketing, fin.version_type)
    /\ UNCHANGED <<fin, rmVars, clientVars, orchVars>>

VerNext == VerApply

SpecVer == VerInit /\ [][VerNext]_vars

\* C9: increment_versions returns skip -> the pair unchanged, patch ->
\* (b+1, M.m.(p+1)), minor -> (b+10, M.(m+1).0), major -> (b+100, (M+1).0.0),
\* and for every other kind than skip fails on a version that is not exactly
\* three dot-separated numbers.
C9_ComputeNext ==
    fout # NotRun =>
        LET b == fin.current_project
            m == fin.marketing
            k == fin.version_type
            p == Split(m, ".")
            Ver(x, y, z) == DigitsOf(x) \o <<".">> \o DigitsOf(y) \o <<".">> \o DigitsOf(z)
        IN CASE k = "skip" -> fout = [ok |-> TRUE, project |-> b, marketing |-> m]
             [] ~IsThreePart(m) -> fout = Raised("ReleaseError")
             [] k = "patch" ->
                  fout = [ok |-> TRUE, project |-> b + 1,
                          marketing |-> Ver(DigitsValue(p[1], 0), DigitsValue(p[2], 0),
                                            DigitsValue(p[3], 0) + 1)]
             [] k = "minor" ->
                  fout = [ok |-> TRUE, project |-> b + 10,
                          marketing |-> Ver(DigitsValue(p[1], 0), DigitsValue(p[2], 0) + 1, 0)]
             [] OTHER ->
                  fout = [ok |-> TRUE, project |-> b + 100,
                          marketing |-> Ver(DigitsValue(p[1], 0) + 1, 0, 0)]

----------------------------------------------------------------------------
(* update_project_versions and get_current_versions applied to descriptor  *)
(* files of up to MaxBlocks buildSettings blocks                           *)

ProjectPath == "project.pbxproj"

\* update_project_versions on the file: backup, read, rewrite, write
UpdatedLedger(fsys, ledger) == BackupFile(fsys, ledger, ProjectPath)
UpdatedFile(fsys, bundle_identifier, new_project, new_marketing) ==
    [fsys EXCEPT ![ProjectPath] =
        WriteText(UpdateProjectVersions(ReadText(fsys[ProjectPath]), bundle_identifier,
                                        new_project, new_marketing))]

MaxBlocks == 2
MaxWrites == 2

BlockIds == {"a", "b"}
BlockFields == {"both", "cpv", "mv"}
BlockLayouts == {"flat", "nest_before", "nest_after", "unclosed"}
BlockShapes == [id : BlockIds, fields : BlockFields, layout : BlockLayouts]

\* the version fields the n-th block of a generated descriptor starts with
OldProject(n) == CASE n = 1 -> <<"7">> [] n = 2 -> <<"4", "1">> [] OTHER -> <<"1", "0", "0">>
OldMarketing(n) == <<"1", ".", "0", ".">> \o DigitsOf(n)

NestedCells == <<"x", "{", "x", "}", ";">>

BlockCells(shape, n) ==
    <<"BS{">>
    \o (IF shape.layout = "nest_before" THEN NestedCells ELSE <<>>)
    \o <<"ID=", shape.id, ";">>
    \o (IF shape.fields \in {"both", "cpv"} THEN <<"CPV=">> \o OldProject(n) \o <<";">> ELSE <<>>)
    \o (IF shape.fields \in {"both", "mv"} THEN <<"MV=">> \o OldMarketing(n) \o <<";">> ELSE <<>>)
    \o (IF shape.layout = "nest_after" THEN NestedCells ELSE <<>>)
    \o (IF shape.layout = "unclosed" THEN <<>> ELSE <<"}", ";">>)
    \o <<"LF">>

RECURSIVE DescriptorCells(_, _)
DescriptorCells(shapes, n) ==
    IF n > Len(shapes) THEN <<>>
    ELSE <<"x", "LF">> \o BlockCells(shapes[n], n) \o DescriptorCells(shapes, n + 1)

RECURSIVE ShapeSeqs(_)
ShapeSeqs(n) ==
    IF n = 0 THEN {<<>>}
    ELSE LET shorter == ShapeSeqs(n - 1)
         IN shorter \cup {Append(q, sh) : q \in {r \in shorter : Len(r) = n - 1}, sh \in BlockShapes}

NewVersions == {[project |-> 10, marketing |-> <<"1", ".", "1", "0", ".", "0">>],
                [project |-> 5, marketing |-> <<"2", ".", "0", ".", "0">>]}

\* the line endings a descriptor file is stored with
LineEndings == {"LF", "CRLF"}
OnDisk(text, eol) == IF eol = "CRLF" THEN WithCRLF(text) ELSE text

DescInit ==
    /\ \E shapes \in ShapeSeqs(MaxBlocks), nv \in NewVersions, eol \in LineEndings :
          /\ fs = [p \in Paths |-> IF p = ProjectPath
                                   THEN OnDisk(DescriptorCells(shapes, 1), eol) ELSE NoFile]
          /\ fin = [content |-> DescriptorCells(shapes, 1), bundle_identifier |-> <<"a">>,
                    new_project |-> nv.project, new_marketing |-> nv.marketing,
                    original |-> OnDisk(DescriptorCells(shapes, 1), eol)]
    /\ fout = NotRun
    /\ backup_files = <<>> /\ created_files = <<>> /\ temp_dirs = <<>>
    /\ rblog = <<>> /\ rollbackCalls = 0
    /\ firstBackup = [p \in Paths |-> Unset]
    /\ opsLeft = MaxWrites
    /\ run = NotRun /\ args = Idle /\ git = Idle

DescUpdate ==
    /\ opsLeft > 0 /\ fout = NotRun
    /\ backup_files' = UpdatedLedger(fs, backup_files)
    /\ fs' = UpdatedFile(fs, fin.bundle_identifier, fin.new_project, fin.new_marketing)
    /\ firstBackup' = NoteFirstBackup(firstBackup, fs, ProjectPath)
    /\ opsLeft' = opsLeft - 1
    /\ run' = UpdateProjectVersionsOutcome(ReadText(fs[ProjectPath]), fin.bundle_identifier,
                                           fin.new_project, fin.new_marketing)
    /\ UNCHANGED <<created_files, temp_dirs, rblog, rollbackCalls, args, git, fin, fout>>

DescRead ==
    /\ opsLeft < MaxWrites /\ fout = NotRun
    /\ fout' = GetCurrentVersions(ReadText(fs[ProjectPath]), fin.bundle_identifier)
    /\ UNCHANGED <<rmVars, clientVars, orchVars, fin>>

DescNext == DescUpdate \/ DescRead

SpecDesc == DescInit /\ [][DescNext]_vars

\* the blocks update_project_versions rewrites that hold both version fields
WriteTargets(content, bundle_identifier) ==
    {k \in 1..Len(BlockStarts(content, 1)) :
        LET start == BlockStarts(content, 1)[k]
            end == FindMatchingBrace(content, start)
            block == PySlice(content, start + 1, end)
        IN /\ end # -1
           /\ HasBundleId(block, bundle_identifier)
           /\ FieldMatches(block, "CPV=", Digits) # {}
           /\ FieldMatches(block, "MV=", VersionCharSet) # {}}

\* C10: when update_project_versions finds a block with the bundle identifier
\* and both version fields, nested braces or not, get_current_versions on the
\* written descriptor returns exactly the written pair.
C10_WriteThenRead ==
    (fout # NotRun /\ WriteTargets(fin.content, fin.bundle_identifier) # {})
        => fout = [ok |-> TRUE, project |-> fin.new_project, marketing |-> fin.new_marketing]

\* the 1-based positions of content inside the blocks update_project_versions
\* rewrites: between the opening brace and its matching closing brace of
\* every block that holds the bundle-identifier assignment
TargetInterior(content, bundle_identifier) ==
    {i \in 1..Len(content) :
        \E k \in 1..Len(BlockStarts(content, 1)) :
            LET start == BlockStarts(content, 1)[k]
                end == FindMatchingBrace(content, start)
            IN /\ end # -1
               /\ HasBundleId(PySlice(content, start + 1, end), bundle_identifier)
               /\ start + 2 <= i /\ i <= end}

\* content with the cells at the positions gone dropped
RECURSIVE Drop(_, _, _)
Drop(content, i, gone) ==
    IF i > Len(content) THEN <<>>
    ELSE (IF i \in gone THEN <<>> ELSE <<content[i]>>) \o Drop(content, i + 1, gone)

OutsideTargets(content, bundle_identifier) ==
    Drop(content, 1, TargetInterior(content, bundle_identifier))

\* C11: after any number of writes, everything in the descriptor file outside
\* the blocks of the requested bundle identifier (the blocks of other
\* identifiers, the text between blocks) is byte for byte what it was.
C11_WriteLeavesOtherBlocksAlone ==
    opsLeft < MaxWrites =>
        OutsideTargets(fs[ProjectPath], fin.bundle_identifier)
            = OutsideTargets(fin.original, fin.bundle_identifier)

\* the pair of the first buildSettings block with the bundle identifier that
\* holds both version fields itself, the ReleaseError when there is none
FirstCompleteBlock(content, bundle_identifier) ==
    LET groups == SettingsGroups(content, 1)
        complete == {k \in 1..Len(groups) :
                        /\ HasBundleId(groups[k], bundle_identifier)
                        /\ SearchField(groups[k], "CPV=", Digits) # <<>>
                        /\ SearchField(groups[k], "MV=", VersionCharSet) # <<>>}
    IN IF complete = {} THEN Raised("ReleaseError")
       ELSE LET k == CHOOSE i \in complete : \A j \in complete : i <= j
            IN [ok |-> TRUE,
                project |-> PyInt(SearchField(groups[k], "CPV=", Digits)),
                marketing |-> SearchField(groups[k], "MV=", VersionCharSet)]

\* C20: get_current_versions returns the build number and the marketing
\* version of one block, the first one with the bundle identifier that holds
\* both, and raises the not-found ReleaseError when no block holds both.
C20_ReadFromOneBlock ==
    fout # NotRun =>
        fout = FirstCompleteBlock(ReadText(fs[ProjectPath]), fin.bundle_identifier)

\* C21: when a buildSettings block of the descriptor has unbalanced braces,
\* update_project_versions fails with a ReleaseError and the file is not
\* written: it holds what it held before the call.
C21_UnbalancedBlockIsFatal ==
    (run # NotRun /\ UnbalancedBlocks(ReadText(fin.original)) # {})
        => /\ ~run.ok
           /\ ~run.wrote
           /\ fs[ProjectPath] = fin.original

\* C29: a second update_project_versions with the same bundle identifier and
\* the same new versions leaves the descriptor as the first one wrote it.
C29_WriteIdempotent ==
    [][opsLeft < MaxWrites => fs'[ProjectPath] = fs[ProjectPath]]_vars

\* two writes done on a descriptor stored with LF, the first of which
\* changed it
C29_Witness ==
    /\ opsLeft = 0
    /\ fin.original = fin.content
    /\ fs[ProjectPath] # fin.original

----------------------------------------------------------------------------
(* process_changelog on changelog files: one call of the function on a     *)
(* CHANGELOG.md of any text over headers, newlines and other text.         *)

ChangelogPath == "CHANGELOG.md"

MaxChangelogLen == 6
ChangelogCells == {"##U", "##V", "LF", "x"}

ClInit ==
    /\ \E content \in StringsUpTo(ChangelogCells, MaxChangelogLen) :
          /\ fs = [p \in Paths |-> IF p = ChangelogPath THEN content ELSE NoFile]
          /\ fin = [content |-> content, new_project |-> 2, new_marketing |-> <<"1", ".", "1", ".", "0">>]
    /\ fout = NotRun
    /\ backup_files = <<>> /\ created_files = <<>> /\ temp_dirs = <<>>
    /\ rblog = <<>> /\ rollbackCalls = 0
    /\ firstBackup = [p \in Paths |-> Unset]
    /\ opsLeft = 1
    /\ run = Idle /\ args = Idle /\ git = Idle

\* process_changelog: backup, read, and either the ReleaseError of a missing
\* section or the write of the updated text
ClProcess ==
    /\ opsLeft > 0
    /\ LET result == ProcessChangelog(ReadText(fs[ChangelogPath]), fin.new_project, fin.new_marketing)
       IN /\ fout' = result
          /\ fs' = IF result.ok
                   THEN [fs EXCEPT ![ChangelogPath] = WriteText(result.updated_content)]
                   ELSE fs
    /\ backup_files' = BackupFile(fs, backup_files, ChangelogPath)
    /\ firstBackup' = NoteFirstBackup(firstBackup, fs, ChangelogPath)
    /\ opsLeft' = opsLeft - 1
    /\ UNCHANGED <<created_files, temp_dirs, rblog, rollbackCalls, orchVars, fin>>

ClNext == ClProcess

SpecCl == ClInit /\ [][ClNext]_vars

\* the lines of a document that are second-level headers: they start with "## "
Headers(lines) == {i \in 1..Len(lines) : lines[i] # <<>> /\ lines[i][1] \in HeaderCells}

\* the line number of the n-th second-level header, one past the last line
\* when there are fewer
NthHeader(lines, n) ==
    LET hs == Headers(lines)
    IN IF Cardinality(hs) < n THEN Len(lines) + 1
       ELSE CHOOSE i \in hs : Cardinality({j \in hs : j < i}) = n - 1

\* the lines under the n-th second-level header
SectionBody(lines, n) == SubSeq(lines, NthHeader(lines, n) + 1, NthHeader(lines, n + 1) - 1)

FirstHeaderIsUnreleased(content) ==
    LET lines == Split(content, "LF")
    IN Headers(lines) # {} /\ lines[NthHeader(lines, 1)] = <<"##U">>

\* updated is content with its unreleased section promoted to header
Promoted(content, updated, header) ==
    LET old == Split(content, "LF")
        new == Split(updated, "LF")
    IN /\ Cardinality(Headers(new)) >= 2
       /\ new[NthHeader(new, 1)] = <<"##U">>
       /\ \A k \in 1..Len(SectionBody(new, 1)) : StripCells(SectionBody(new, 1)[k]) = <<>>
       /\ new[NthHeader(new, 2)] = header
       /\ SectionBody(new, 2) = SectionBody(old, 1)
       /\ SubSeq(new, NthHeader(new, 3), Len(new)) = SubSeq(old, NthHeader(old, 2), Len(old))

\* C12: for a changelog whose first second-level header is "## Unreleased",
\* process_changelog succeeds and writes a document whose first second-level
\* header is an empty "## Unreleased", whose second is the new version header
\* followed by exactly the previously unreleased items, with every earlier
\* section unchanged after it.
C12_PromoteUnreleased ==
    (fout # NotRun /\ FirstHeaderIsUnreleased(fin.content))
        => /\ fout.ok
           /\ Promoted(fin.content, ReadText(fs[ChangelogPath]),
                       NewHeader(fin.new_project, fin.new_marketing))

\* the 1-based position of the first second-level header line of text at or
\* after position from, one past the end when there is none
NextHeaderLine(text, from) ==
    LET hs == {k \in from..Len(text) :
                  text[k] \in HeaderCells /\ (k = 1 \/ text[k - 1] = "LF")}
    IN IF hs = {} THEN Len(text) + 1 ELSE CHOOSE k \in hs : \A j \in hs : k <= j

\* the text between the "## Unreleased\n" the search matched and the next
\* second-level header line or the end of the document
UnreleasedSection(text) ==
    LET i == UnreleasedStart(text)
    IN SubSeq(text, i + 2, NextHeaderLine(text, i + 2) - 1)

\* C23: the release notes process_changelog returns are the text between
\* the "## Unreleased" header and the next second-level header or the end of
\* the document, stripped; they hold no later header and none of its
\* entries, also when the section is empty.
C23_NotesStayInsideSection ==
    (fout # NotRun /\ fout.ok)
        => fout.changelog_items = StripCells(UnreleasedSection(fin.content))

----------------------------------------------------------------------------
(* Functions that run external commands: run_command, notarize_dmg with    *)
(* handle_notarization_failure, and sign_update, each as the function of   *)
(* what the commands it runs exit with and print.                          *)

RaisedWith(kind, msg) == [ok |-> FALSE, err |-> kind, msg |-> msg]

\* run_command(cmd) with check=True: the completed process, or the
\* CalledProcessError of a non-zero exit status re-raised as ReleaseError
RunCommand(cmd, status, stdout) ==
    IF status = 0 THEN [ok |-> TRUE, stdout |-> stdout]
    ELSE RaisedWith("ReleaseError", <<"Command failed", cmd>>)

\* handle_notarization_failure: the log is fetched for an Invalid submission
\* with an id; only json.JSONDecodeError is caught
HandleNotarizationFailure(status, submission_id, log_status, log_stdout) ==
    IF submission_id /\ status = "Invalid"
    THEN LET log_result == RunCommand("notarytool log", log_status, log_stdout)
         IN IF ~log_result.ok THEN log_result
            ELSE IF log_result.stdout = "scalar" THEN RaisedWith("Exception", <<"TypeError">>)
            ELSE [ok |-> TRUE]
    ELSE [ok |-> TRUE]

\* notarize_dmg: submit and wait, read the status of the response, diagnose
\* and fail unless it is Accepted, staple
NotarizeDmg(i) ==
    LET result == RunCommand("notarytool submit", i.submit_status, i.submit_stdout)
    IN IF ~result.ok THEN result
       ELSE IF result.stdout = "not_plist" THEN RaisedWith("Exception", <<"InvalidFileException">>)
       ELSE IF i.status # "Accepted"
       THEN LET handled == HandleNotarizationFailure(i.status, i.submission_id,
                                                     i.log_status, i.log_stdout)
            IN IF ~handled.ok THEN handled
               ELSE RaisedWith("ReleaseError", <<"Notarization failed with status", i.status>>)
       ELSE LET stapled == RunCommand("stapler staple", i.staple_status, "")
            IN IF stapled.ok THEN [ok |-> TRUE] ELSE stapled

\* the external commands notarize_dmg runs, in order: the submission, then
\* the log of the submission or the stapler
NotarizeCommands(i) ==
    <<"notarytool submit">>
    \o (IF i.submit_status # 0 \/ i.submit_stdout = "not_plist" THEN <<>>
        ELSE IF i.status # "Accepted"
        THEN IF i.submission_id /\ i.status = "Invalid" THEN <<"notarytool log">> ELSE <<>>
        ELSE <<"stapler staple">>)

\* what sign_update can print
KeychainMarkerOutputs == {"keychain_60008", "keychain_25300", "keychain_other"}
SignerOutputs == {"signature_and_length", "other_text"} \cup KeychainMarkerOutputs

\* sign_update: the except clause is for subprocess.CalledProcessError, and
\* what run_command raises passes it when it is anything else
SignUpdateResult(i) ==
    IF ~i.tool_exists THEN RaisedWith("ReleaseError", <<"Sparkle sign_update tool not found">>)
    ELSE LET result == RunCommand("sign_update", i.status, i.stdout)
         IN IF ~result.ok
            THEN IF result.err = "CalledProcessError" /\ i.stdout \in KeychainMarkerOutputs
                 THEN RaisedWith("ReleaseError",
                                 <<"Sparkle signing failed due to Keychain access issue">>)
                 ELSE result
            ELSE IF result.stdout = "signature_and_length"
                 THEN [ok |-> TRUE]
                 ELSE RaisedWith("ReleaseError", <<"Could not parse sign_update output">>)

ExitStatuses == {0, 1}
NotarizationStatuses == {"Accepted", "Invalid", "Rejected", "Unknown"}

NotarizeInputs ==
    [fn : {"notarize_dmg"}, submit_status : ExitStatuses, submit_stdout : {"plist", "not_plist"},
     status : NotarizationStatuses, submission_id : BOOLEAN,
     log_status : ExitStatuses, log_stdout : {"object", "not_json", "scalar"},
     staple_status : ExitStatuses]
SignInputs ==
    [fn : {"sign_update"}, tool_exists : BOOLEAN, status : ExitStatuses, stdout : SignerOutputs]

CmdInit ==
    /\ \/ fin \in NotarizeInputs
       \/ fin \in SignInputs
    /\ fout = NotRun
    /\ fs = Idle /\ backup_files = Idle /\ created_files = Idle /\ temp_dirs = Idle
    /\ rblog = Idle /\ rollbackCalls = 0 /\ firstBackup = Idle /\ opsLeft = 1
    /\ run = Idle /\ args = Idle /\ git = Idle

NotarizeApply ==
    /\ opsLeft > 0 /\ fin.fn = "notarize_dmg"
    /\ fout' = NotarizeDmg(fin)
    /\ run' = NotarizeCommands(fin)
    /\ opsLeft' = opsLeft - 1
    /\ UNCHANGED <<fs, backup_files, created_files, temp_dirs, rblog, rollbackCalls,
                   firstBackup, args, git, fin>>

SignApply ==
    /\ opsLeft > 0 /\ fin.fn = "sign_update"
    /\ fout' = SignUpdateResult(fin)
    /\ opsLeft' = opsLeft - 1
    /\ UNCHANGED <<fs, backup_files, created_files, temp_dirs, rblog, rollbackCalls,
                   firstBackup, orchVars, fin>>

CmdNext == NotarizeApply \/ SignApply

SpecCmd == CmdInit /\ [][CmdNext]_vars

\* C16: when the submission returned a response whose status is not Accepted
\* and the fetch of the diagnostic log fails, notarize_dmg still raises the
\* ReleaseError of the notarization failure, with the status.
C16_NotarizationFailureNotMasked ==
    (fout # NotRun /\ fin.fn = "notarize_dmg"
        /\ fin.submit_status = 0 /\ fin.submit_stdout = "plist"
        /\ fin.status # "Accepted" /\ fin.log_status # 0)
      => fout = RaisedWith("ReleaseError", <<"Notarization failed with status", fin.status>>)

\* C26: whenever the submission returned a response whose status is not
\* Accepted, the log of the submission was fetched before notarize_dmg
\* raised.
C26_LogFetchedForEveryFailure ==
    (fout # NotRun /\ fin.fn = "notarize_dmg"
        /\ fin.submit_status = 0 /\ fin.submit_stdout = "plist"
        /\ fin.status # "Accepted")
      => /\ ~fout.ok
         /\ run = <<"notarytool submit", "notarytool log">>

\* C17: when the signer exits with a non-zero status and its output holds
\* the keychain marker, sign_update raises the keychain-access ReleaseError,
\* not the "Command failed" one of run_command.
C17_KeychainErrorDistinguished ==
    (fout # NotRun /\ fin.fn = "sign_update"
        /\ fin.tool_exists /\ fin.status # 0 /\ fin.stdout \in KeychainMarkerOutputs)
      => fout = RaisedWith("ReleaseError",
                           <<"Sparkle signing failed due to Keychain access issue">>)

----------------------------------------------------------------------------
(* clean_and_sign_app: the commands it issues, one run of the function on  *)
(* an app bundle whose Contents/Frameworks holds some *.xpc and            *)
(* *.framework entries, some of them symbolic links to the same directory. *)

MaxNested == 2

AppBundle == <<"app", 0>>
XpcPaths == {<<"xpc", i>> : i \in 1..MaxNested}
FrameworkPaths == {<<"framework", i>> : i \in 1..MaxNested}
\* the directories the entries resolve to
RealPaths == {"r1", "r2"}

\* what rglob and glob can yield: the entries found, in any order
Orderings(S) ==
    {s \in UNION {[1..n -> S] : n \in 0..Cardinality(S)} :
        \A i, j \in 1..Len(s) : i # j => s[i] # s[j]}

\* run_command(cmd, check=...) as issued: status -1 is a status the caller
\* does not look at
Command(name, target, check, status) ==
    [name |-> name, target |-> target, check |-> check, status |-> status]

\* The commands of a straight-line piece of code, each [name, target, check]:
\* all of them return, or one with check=True exits non-zero and
\* run_command raises ReleaseError; the ones after it are not issued.
IssuedOk(cmds) ==
    [k \in 1..Len(cmds) |->
        Command(cmds[k][1], cmds[k][2], cmds[k][3], IF cmds[k][3] THEN 0 ELSE -1)]
IssuedFailingAt(cmds, n) ==
    [k \in 1..n |->
        Command(cmds[k][1], cmds[k][2], cmds[k][3],
                IF k = n THEN 1 ELSE IF cmds[k][3] THEN 0 ELSE -1)]

\* the already-signed path without the verification after the cleaning
CleanOnlyCommandsUnverified ==
    <<<<"xattr_cr", AppBundle, TRUE>>, <<"find_ds_store", AppBundle, TRUE>>,
      <<"find_appledouble", AppBundle, TRUE>>>>

\* lines 1004-1019: the bundle is signed already
CleanOnlyCommands ==
    <<<<"xattr_cr", AppBundle, TRUE>>, <<"find_ds_store", AppBundle, TRUE>>,
      <<"find_appledouble", AppBundle, TRUE>>, <<"codesign_verify", AppBundle, TRUE>>>>

\* lines 1029-1065, the same commands with and without the progress display
DeepCleanCommands ==
    <<<<"xattr_cr", AppBundle, TRUE>>, <<"find_ds_store", AppBundle, TRUE>>,
      <<"find_appledouble", AppBundle, TRUE>>, <<"dot_clean", AppBundle, FALSE>>>>

\* the for loops of lines 1077-1103: signed_paths and bundles_to_sign after
\* the entries found, in the order found
RECURSIVE CollectBundles(_, _, _, _, _)
CollectBundles(found, k, resolve, signed_paths, bundles_to_sign) ==
    IF k > Len(found)
    THEN [signed_paths |-> signed_paths, bundles_to_sign |-> bundles_to_sign]
    ELSE IF resolve[found[k]] \in signed_paths
    THEN CollectBundles(found, k + 1, resolve, signed_paths, bundles_to_sign)
    ELSE CollectBundles(found, k + 1, resolve, signed_paths \cup {resolve[found[k]]},
                        Append(bundles_to_sign, found[k]))

\* bundles_to_sign with the frameworks collected before the XPC services
BundlesToSignFrameworksFirst(i) ==
    IF ~i.frameworks_dir THEN <<>>
    ELSE CollectBundles(i.frameworks \o i.xpcs, 1, i.resolve, {}, <<>>).bundles_to_sign

\* Phase 2: the XPC services, then the frameworks, each real path once
BundlesToSign(i) ==
    IF ~i.frameworks_dir THEN <<>>
    ELSE CollectBundles(i.xpcs \o i.frameworks, 1, i.resolve, {}, <<>>).bundles_to_sign

\* lines 1123-1146 and 1151-1169: one bundle of the loop
NestedCommands(bundle) ==
    <<<<"xattr_cr", bundle, TRUE>>, <<"find_appledouble", bundle, FALSE>>,
      <<"codesign_sign", bundle, TRUE>>>>

\* lines 1175-1196: Phase 3
MainCommands ==
    <<<<"xattr_cr", AppBundle, TRUE>>, <<"xattr_c", AppBundle, TRUE>>,
      <<"find_appledouble", AppBundle, FALSE>>, <<"codesign_sign_deep", AppBundle, TRUE>>>>

\* lines 1199-1201
FinalVerifyCommands == <<<<"codesign_verify", AppBundle, TRUE>>>>

SignInit ==
    /\ fin \in {[fn |-> "clean_and_sign_app", frameworks_dir |-> d, xpcs |-> x,
                 frameworks |-> f, resolve |-> r] :
                  d \in BOOLEAN, x \in Orderings(XpcPaths), f \in Orderings(FrameworkPaths),
                  r \in [XpcPaths \cup FrameworkPaths -> RealPaths]}
    /\ ~fin.frameworks_dir => (fin.xpcs = <<>> /\ fin.frameworks = <<>>)
    /\ run = [pc |-> "entry", log |-> <<>>, entry_status |-> -1,
              bundles_to_sign |-> <<>>, next |-> 1]
    /\ fout = NotRun
    /\ fs = Idle /\ backup_files = Idle /\ created_files = Idle /\ temp_dirs = Idle
    /\ rblog = Idle /\ rollbackCalls = 0 /\ firstBackup = Idle /\ opsLeft = 0
    /\ args = Idle /\ git = Idle

SignFrame ==
    UNCHANGED <<fs, backup_files, created_files, temp_dirs, rblog, rollbackCalls,
                firstBackup, opsLeft, args, git, fin>>

\* the commands cmds are issued at r.pc; when all return the function goes
\* on at next_pc
Issue(r, cmds, next_pc) ==
    \/ /\ run' = [r EXCEPT !.log = @ \o IssuedOk(cmds), !.pc = next_pc]
       /\ fout' = IF next_pc = "returned" THEN [ok |-> TRUE] ELSE fout
    \/ \E n \in 1..Len(cmds) :
          /\ cmds[n][3]
          /\ run' = [r EXCEPT !.log = @ \o IssuedFailingAt(cmds, n), !.pc = "raised"]
          /\ fout' = RunCommand(cmds[n][1], 1, "")

\* developer_id = get_developer_id_certificate() and the deep verification
\* on entry, whose status selects the path
SignEntry ==
    /\ run.pc = "entry"
    /\ \/ /\ run' = [run EXCEPT !.pc = "raised"]
          /\ fout' = RaisedWith("ReleaseError", <<"APPLE_TEAM_ID environment variable is not set">>)
       \/ /\ run' = [run EXCEPT !.pc = "raised",
                                !.log = <<Command("security_find_identity", AppBundle, TRUE, 1)>>]
          /\ fout' = RunCommand("security_find_identity", 1, "")
       \/ /\ run' = [run EXCEPT !.pc = "raised",
                                !.log = <<Command("security_find_identity", AppBundle, TRUE, 0)>>]
          /\ fout' = RaisedWith("ReleaseError", <<"Could not find Developer ID Application certificate">>)
       \/ \E status \in ExitStatuses :
             /\ run' = [run EXCEPT !.pc = IF status = 0 THEN "clean_only" ELSE "deep_clean",
                                   !.entry_status = status,
                                   !.log = <<Command("security_find_identity", AppBundle, TRUE, 0),
                                             Command("codesign_verify", AppBundle, FALSE, status)>>]
             /\ UNCHANGED fout
    /\ SignFrame

SignCleanOnly ==
    /\ run.pc = "clean_only"
    /\ Issue(run, CleanOnlyCommands, "returned")
    /\ SignFrame

\* Phase 1 and the collection of bundles_to_sign
SignDeepClean ==
    /\ run.pc = "deep_clean"
    /\ Issue([run EXCEPT !.bundles_to_sign = BundlesToSign(fin)], DeepCleanCommands, "sign_nested")
    /\ SignFrame

SignNested ==
    /\ run.pc = "sign_nested" /\ run.next <= Len(run.bundles_to_sign)
    /\ Issue([run EXCEPT !.next = @ + 1], NestedCommands(run.bundles_to_sign[run.next]),
             "sign_nested")
    /\ SignFrame

SignMain ==
    /\ run.pc = "sign_nested" /\ run.next > Len(run.bundles_to_sign)
    /\ Issue(run, MainCommands, "final_verify")
    /\ SignFrame

SignFinalVerify ==
    /\ run.pc = "final_verify"
    /\ Issue(run, FinalVerifyCommands, "returned")
    /\ SignFrame

SignNext ==
    \/ SignEntry \/ SignCleanOnly \/ SignDeepClean
    \/ SignNested \/ SignMain \/ SignFinalVerify

SpecSign == SignInit /\ [][SignNext]_vars

SigningCommands == {"codesign_sign", "codesign_sign_deep"}

\* C24: when the deep verification on entry succeeds, no signing command is
\* issued, and the function returns only after the cleaning commands and a
\* second deep verification, with check, all succeeded.
C24_AlreadySignedNotResigned ==
    run.entry_status = 0 =>
        /\ \A k \in 1..Len(run.log) : run.log[k].name \notin SigningCommands
        /\ run.pc = "returned" =>
              /\ Len(run.log) = 6
              /\ run.log[3].name = "xattr_cr" /\ run.log[3].status = 0
              /\ run.log[6] = Command("codesign_verify", AppBundle, TRUE, 0)
              /\ fout = [ok |-> TRUE]

C24_Witness ==
    run.entry_status = 0 /\ run.pc = "returned"

\* the place of a command in the order of signing: XPC services, frameworks,
\* the main bundle, the final verification; 0 for the other commands
SigningRank(c) ==
    IF c.name = "codesign_sign" /\ c.target \in XpcPaths THEN 1
    ELSE IF c.name = "codesign_sign" /\ c.target \in FrameworkPaths THEN 2
    ELSE IF c.name = "codesign_sign_deep" THEN 3
    ELSE IF c.name = "codesign_verify" /\ c.check THEN 4
    ELSE 0

NestedSigned(log) == {k \in 1..Len(log) : log[k].name = "codesign_sign"}

\* C25: when the bundle needs signing, the signing commands come in the
\* order XPC services, frameworks, main bundle, final verification; no two
\* signed nested bundles resolve to the same real path, and when the
\* function returns every real path found was signed; the attributes and
\* the AppleDouble files of a nested bundle are removed right before it is
\* signed; no command is issued twice for a signature, and a signing or
\* verifying command that fails is the last one issued and raises
\* ReleaseError.
C25_SigningOrder ==
    run.entry_status = 1 =>
        /\ \A j, k \in 1..Len(run.log) :
              (j < k /\ SigningRank(run.log[j]) > 0 /\ SigningRank(run.log[k]) > 0)
                  => SigningRank(run.log[j]) <= SigningRank(run.log[k])
        /\ \A j, k \in NestedSigned(run.log) :
              j # k => fin.resolve[run.log[j].target] # fin.resolve[run.log[k].target]
        /\ \A k \in NestedSigned(run.log) :
              /\ k >= 3
              /\ run.log[k - 2] = Command("xattr_cr", run.log[k].target, TRUE, 0)
              /\ run.log[k - 1] = Command("find_appledouble", run.log[k].target, FALSE, -1)
        /\ \A j, k \in 1..Len(run.log) :
              (j # k /\ SigningRank(run.log[j]) \in {3, 4}) => run.log[j] # run.log[k]
        /\ \A k \in 1..Len(run.log) :
              (SigningRank(run.log[k]) > 0 /\ run.log[k].status # 0)
                  => /\ k = Len(run.log) /\ run.pc = "raised"
                     /\ ~fout.ok /\ fout.err = "ReleaseError"
        /\ run.pc = "returned" =>
              /\ {fin.resolve[run.log[k].target] : k \in NestedSigned(run.log)}
                     = {fin.resolve[fin.xpcs[k]] : k \in 1..Len(fin.xpcs)}
                       \cup {fin.resolve[fin.frameworks[k]] : k \in 1..Len(fin.frameworks)}
              /\ run.log[Len(run.log) - 1].name = "codesign_sign_deep"
              /\ run.log[Len(run.log)] = Command("codesign_verify", AppBundle, TRUE, 0)

C25_Witness ==
    /\ run.entry_status = 1 /\ run.pc = "returned"
    /\ Len(fin.xpcs) = 2 /\ Len(fin.frameworks) = 2
    /\ fin.resolve[fin.xpcs[1]] = fin.resolve[fin.xpcs[2]]
    /\ Cardinality(NestedSigned(run.log)) = 2

----------------------------------------------------------------------------
(* update_appcast applied to feeds whose channel holds every sequence of   *)
(* up to MaxChildren children, to a feed without channel and to a file     *)
(* that is not XML                                                         *)

MaxChildren == 4
ListedTags == {"title", "link", "description", "language"}
ChannelTags == ListedTags \cup {"generator", "item"}

FeedInit ==
    /\ \E bytes \in {<<"<channel>", "LF">> \o FeedBytes(c) :
                         c \in StringsUpTo(ChannelTags, MaxChildren)}
                     \cup {<<"<rss>", "LF">>, <<"<<">>} :
          /\ fs = [p \in Paths |-> IF p = AppcastPath THEN bytes ELSE NoFile]
          /\ fin = [bytes |-> bytes]
    /\ fout = NotRun
    /\ backup_files = <<>> /\ created_files = <<>> /\ temp_dirs = <<>>
    /\ rblog = <<>> /\ rollbackCalls = 0
    /\ firstBackup = [p \in Paths |-> Unset]
    /\ opsLeft = 1
    /\ run = Idle /\ args = Idle /\ git = Idle

\* update_appcast: backup, parse, and either the error of a file that has no
\* channel or is not XML, or the write of the tree with the new item
FeedUpdate ==
    /\ opsLeft > 0
    /\ LET result == UpdateAppcast(fs[AppcastPath])
       IN /\ fout' = [ok |-> result.ok]
          /\ fs' = IF result.ok THEN [fs EXCEPT ![AppcastPath] = result.bytes] ELSE fs
    /\ backup_files' = BackupFile(fs, backup_files, AppcastPath)
    /\ firstBackup' = NoteFirstBackup(firstBackup, fs, AppcastPath)
    /\ opsLeft' = opsLeft - 1
    /\ UNCHANGED <<created_files, temp_dirs, rblog, rollbackCalls, orchVars, fin>>

FeedNext == FeedUpdate

SpecFeed == FeedInit /\ [][FeedNext]_vars

\* the index of the first existing item, or one past the end
FirstItem(children) ==
    IF \E j \in 1..Len(children) : children[j] = "item"
    THEN CHOOSE j \in 1..Len(children) :
            children[j] = "item" /\ \A h \in 1..(j - 1) : children[h] # "item"
    ELSE Len(children) + 1

\* the places of the new item among the children written
NewItemAt(children) == {k \in 1..Len(children) : children[k] = "newitem"}

\* the children written are the children read with one new item at place k
InsertedAt(before, after, k) ==
    /\ NewItemAt(after) = {k}
    /\ SubSeq(after, 1, k - 1) \o SubSeq(after, k + 1, Len(after)) = before

\* C27: the new item is a child of the channel, after every title, link,
\* description and language child that precedes the first existing item,
\* and, when the channel has an item, immediately before the first one.
C27_InsertedRightBeforeFirstItem ==
    (fout # NotRun /\ fout.ok) =>
        LET before == FeedChildren(fin.bytes)
            after == FeedChildren(fs[AppcastPath])
        IN \E k \in 1..Len(after) :
              /\ InsertedAt(before, after, k)
              /\ \A j \in 1..(FirstItem(before) - 1) : before[j] \in ListedTags => j < k
              /\ FirstItem(before) <= Len(before) => k = FirstItem(before)

\* C27, amended: the new item is a child of the channel, immediately after
\* the last title, link, description or language child that precedes the
\* first existing item (first child when there is none), hence before every
\* existing item; elements between that child and the first item follow the
\* new item.
C27_InsertedAfterLastListed ==
    (fout # NotRun /\ fout.ok) =>
        LET before == FeedChildren(fin.bytes)
            after == FeedChildren(fs[AppcastPath])
            listed == {j \in 1..(FirstItem(before) - 1) : before[j] \in ListedTags}
        IN \E k \in 1..Len(after) :
              /\ InsertedAt(before, after, k)
              /\ \A j \in listed : j < k
              /\ k = 1 \/ (k - 1) \in listed
              /\ k <= FirstItem(before)

\* a feed written whose channel had another element between the last listed
\* child and the first item, and a listed child after that item
C27_Witness ==
    /\ fout # NotRun /\ fout.ok
    /\ FeedChildren(fin.bytes) = <<"title", "generator", "item", "link">>

----------------------------------------------------------------------------
(* build_xcode_archive from the start of the pipeline: xcodebuild and      *)
(* xcbeautify run as processes of their own next to the script, which      *)
(* starts them, collects the formatter's output, waits for the build tool, *)
(* checks the return codes and exports the archive.                        *)

\* return codes: success, failure, death by a signal
ReturnCodes == {0, 65, -13}
\* Popen.returncode of a process not waited for yet (None), a value no
\* process returns
NoReturnCode == 256
Process(state, returncode) == [state |-> state, returncode |-> returncode]
Terminated(proc) == proc.state = "exited"

\* the test on the return codes without the formatter's
BuildFailedIgnoringFormatter(xcodebuild_rc, xcbeautify_rc) == xcodebuild_rc # 0

\* the test of line 919
BuildFailed(xcodebuild_rc, xcbeautify_rc) == xcodebuild_rc # 0 \/ xcbeautify_rc # 0

\* the room of a pipe and the most a process writes, in blocks
PipeCapacity == 2
MaxOutput == 3

BuildInit ==
    /\ fin \in [app_exported : BOOLEAN, stdout : 0..MaxOutput, stderr : 0..MaxOutput]
    /\ run = [pc |-> "popen_xcodebuild", xcodebuild |-> Process("not_started", NoReturnCode),
              xcbeautify |-> Process("not_started", NoReturnCode), export_started |-> FALSE,
              stdout_left |-> fin.stdout, stderr_left |-> fin.stderr,
              stdout_pipe |-> 0, stderr_pipe |-> 0, stdout_open |-> FALSE]
    /\ fout = NotRun
    /\ fs = Idle /\ backup_files = Idle /\ created_files = Idle /\ temp_dirs = Idle
    /\ rblog = Idle /\ rollbackCalls = 0 /\ firstBackup = Idle /\ opsLeft = 0
    /\ args = Idle /\ git = Idle

BuildFrame ==
    UNCHANGED <<fs, backup_files, created_files, temp_dirs, rblog, rollbackCalls,
                firstBackup, opsLeft, args, git, fin>>

\* subprocess.Popen(xcodebuild_cmd, stdout=PIPE, stderr=PIPE): the script
\* holds the read ends of the two pipes
PopenXcodebuild ==
    /\ run.pc = "popen_xcodebuild"
    /\ run' = [run EXCEPT !.pc = "popen_xcbeautify",
                          !.xcodebuild = Process("running", NoReturnCode),
                          !.stdout_open = TRUE]
    /\ UNCHANGED fout /\ BuildFrame

\* subprocess.Popen(["xcbeautify"], stdin=xcodebuild_proc.stdout, ...)
PopenXcbeautify ==
    /\ run.pc = "popen_xcbeautify"
    /\ run' = [run EXCEPT !.pc = "close_stdout", !.xcbeautify = Process("running", NoReturnCode)]
    /\ UNCHANGED fout /\ BuildFrame

\* xcodebuild_proc.stdout.close()
CloseStdout ==
    /\ run.pc = "close_stdout"
    /\ run' = [run EXCEPT !.pc = "communicate", !.stdout_open = FALSE]
    /\ UNCHANGED fout /\ BuildFrame

\* xcbeautify_proc.communicate() reads what the formatter prints and returns
\* when the formatter has terminated
Communicate ==
    /\ run.pc = "communicate" /\ Terminated(run.xcbeautify)
    /\ run' = [run EXCEPT !.pc = "wait"]
    /\ UNCHANGED fout /\ BuildFrame

\* xcodebuild_proc.wait() returns when the build tool has terminated
WaitXcodebuild ==
    /\ run.pc = "wait" /\ Terminated(run.xcodebuild)
    /\ run' = [run EXCEPT !.pc = "check"]
    /\ UNCHANGED fout /\ BuildFrame

\* the test of the return codes: ReleaseError, or on to the export
CheckReturnCodes ==
    /\ run.pc = "check"
    /\ IF BuildFailed(run.xcodebuild.returncode, run.xcbeautify.returncode)
       THEN /\ run' = [run EXCEPT !.pc = "raised"]
            /\ fout' = RaisedWith("ReleaseError", <<"Build archive failed">>)
       ELSE /\ run' = [run EXCEPT !.pc = "export"]
            /\ UNCHANGED fout
    /\ BuildFrame

\* run_command(xcodebuild -exportArchive ...) and the look for the app
ExportArchive ==
    /\ run.pc = "export"
    /\ \E status \in ExitStatuses :
          LET exported == RunCommand("xcodebuild -exportArchive", status, "")
          IN /\ fout' = IF ~exported.ok THEN exported
                        ELSE IF ~fin.app_exported
                        THEN RaisedWith("ReleaseError", <<"Exported app not found">>)
                        ELSE [ok |-> TRUE]
             /\ run' = [run EXCEPT !.pc = IF fout'.ok THEN "returned" ELSE "raised",
                                   !.export_started = TRUE]
    /\ BuildFrame

\* the build tool writes a block to its standard output: into the pipe when
\* there is room; SIGPIPE when nobody holds the read end any more
XcodebuildWritesStdout ==
    /\ run.xcodebuild.state = "running" /\ run.stdout_left > 0
    /\ IF run.stdout_open \/ run.xcbeautify.state = "running"
       THEN /\ run.stdout_pipe < PipeCapacity
            /\ run' = [run EXCEPT !.stdout_pipe = @ + 1, !.stdout_left = @ - 1]
       ELSE run' = [run EXCEPT !.xcodebuild = Process("exited", -13)]
    /\ UNCHANGED fout /\ BuildFrame

\* the build tool writes a block to its standard error, when the pipe has
\* room: the script holds the read end (stderr=subprocess.PIPE) and has no
\* statement that reads it
XcodebuildWritesStderr ==
    /\ run.xcodebuild.state = "running" /\ run.stderr_left > 0
    /\ run.stderr_pipe < PipeCapacity
    /\ run' = [run EXCEPT !.stderr_pipe = @ + 1, !.stderr_left = @ - 1]
    /\ UNCHANGED fout /\ BuildFrame

\* the build tool terminates when it has written all its output
XcodebuildExits ==
    /\ run.xcodebuild.state = "running"
    /\ run.stdout_left = 0 /\ run.stderr_left = 0
    /\ \E rc \in {0, 65} : run' = [run EXCEPT !.xcodebuild = Process("exited", rc)]
    /\ UNCHANGED fout /\ BuildFrame

\* the build tool is killed by a signal
XcodebuildDies ==
    /\ run.xcodebuild.state = "running"
    /\ run' = [run EXCEPT !.xcodebuild = Process("exited", -13)]
    /\ UNCHANGED fout /\ BuildFrame

\* the formatter reads a block from its standard input
XcbeautifyReads ==
    /\ run.xcbeautify.state = "running" /\ run.stdout_pipe > 0
    /\ run' = [run EXCEPT !.stdout_pipe = @ - 1]
    /\ UNCHANGED fout /\ BuildFrame

\* the formatter terminates at the end of its input: the pipe is empty and
\* the build tool, which holds the write end, has terminated
XcbeautifyExits ==
    /\ run.xcbeautify.state = "running"
    /\ run.stdout_pipe = 0 /\ Terminated(run.xcodebuild)
    /\ \E rc \in {0, 65} : run' = [run EXCEPT !.xcbeautify = Process("exited", rc)]
    /\ UNCHANGED fout /\ BuildFrame

\* the formatter fails or is killed before the end of its input
XcbeautifyDies ==
    /\ run.xcbeautify.state = "running"
    /\ \E rc \in {65, -13} : run' = [run EXCEPT !.xcbeautify = Process("exited", rc)]
    /\ UNCHANGED fout /\ BuildFrame

\* Ctrl-C while the pipeline is being run: KeyboardInterrupt leaves the
\* function at the statement it is in
BuildInterrupted ==
    /\ run.pc \in {"popen_xcodebuild", "popen_xcbeautify", "close_stdout", "communicate",
                    "wait", "check", "export"}
    /\ run' = [run EXCEPT !.pc = "interrupted"]
    /\ fout' = Raised("KeyboardInterrupt")
    /\ BuildFrame

BuildNext ==
    \/ PopenXcodebuild \/ PopenXcbeautify \/ CloseStdout \/ Communicate
    \/ WaitXcodebuild \/ CheckReturnCodes \/ ExportArchive
    \/ XcodebuildWritesStdout \/ XcodebuildWritesStderr \/ XcodebuildExits \/ XcodebuildDies
    \/ XcbeautifyReads \/ XcbeautifyExits \/ XcbeautifyDies
    \/ BuildInterrupted

SpecBuild == BuildInit /\ [][BuildNext]_vars

\* the script executes its statements, the processes write, read and
\* terminate whenever they can; nothing makes a signal or Ctrl-C come
SpecBuildLive ==
    /\ SpecBuild
    /\ WF_vars(PopenXcodebuild) /\ WF_vars(PopenXcbeautify) /\ WF_vars(CloseStdout)
    /\ WF_vars(Communicate) /\ WF_vars(WaitXcodebuild)
    /\ WF_vars(CheckReturnCodes) /\ WF_vars(ExportArchive)
    /\ WF_vars(XcodebuildWritesStdout) /\ WF_vars(XcodebuildWritesStderr)
    /\ WF_vars(XcodebuildExits)
    /\ WF_vars(XcbeautifyReads) /\ WF_vars(XcbeautifyExits)

\* the statements after the two waits
AfterWaits == {"check", "export", "returned", "raised"}

\* C28: the return codes are tested only when both xcodebuild and
\* xcbeautify have terminated; the test raises "Build archive failed"
\* exactly when one of the two return codes is not 0; and the export starts
\* only when both are 0, never after that error.
C28_BuildWaitsForBoth ==
    /\ run.pc \in AfterWaits
          => Terminated(run.xcodebuild) /\ Terminated(run.xcbeautify)
    /\ run.pc \in AfterWaits \ {"check"}
          => (fout = RaisedWith("ReleaseError", <<"Build archive failed">>)
                <=> (run.xcodebuild.returncode # 0 \/ run.xcbeautify.returncode # 0))
    /\ (run.pc = "export" \/ run.export_started)
          => run.xcodebuild = Process("exited", 0) /\ run.xcbeautify = Process("exited", 0)
    /\ fout = RaisedWith("ReleaseError", <<"Build archive failed">>) => ~run.export_started

\* the build tool succeeded, the formatter did not, and the step failed
C28_Witness ==
    /\ run.pc = "raised"
    /\ run.xcodebuild = Process("exited", 0) /\ run.xcbeautify = Process("exited", 65)
    /\ fout = RaisedWith("ReleaseError", <<"Build archive failed">>)

\* C33: when the build tool terminates once its output is taken and the
\* formatter terminates at the end of its input, communicate() and wait()
\* return in the end (or the run is interrupted), however much the build
\* tool writes to its standard error.
C33_WaitsReturn ==
    <>(run.pc \in AfterWaits \cup {"interrupted"})

----------------------------------------------------------------------------
(* main(): the release orchestrator.  One run of the script over a working *)
(* tree with the three tracked files, from the command line to sys.exit.   *)

BundleIdentifier == <<"a">>

\* the working trees a run starts from
GoodDescriptor == DescriptorCells(<<[id |-> "a", fields |-> "both", layout |-> "flat"]>>, 1)
OtherAppDescriptor == DescriptorCells(<<[id |-> "b", fields |-> "both", layout |-> "flat"]>>, 1)
TwoPartDescriptor ==
    <<"x", "LF", "BS{", "ID=", "a", ";", "CPV=", "7", ";", "MV=", "1", ".", "0", ";", "}", ";", "LF">>
GoodChangelog == <<"x", "LF", "##U", "LF", "x", "LF", "LF", "##V", "1", "LF", "x", "LF">>
NoSectionChangelog == <<"x", "LF", "##V", "1", "LF", "x", "LF">>
GoodFeed == <<"<channel>", "LF", "title", "LF", "item", "LF">>
NoChannelFeed == <<"<rss>", "LF">>

Descriptors == {GoodDescriptor, WithCRLF(GoodDescriptor), OtherAppDescriptor, TwoPartDescriptor}
Changelogs == {GoodChangelog, WithCRLF(GoodChangelog), NoSectionChangelog}
Feeds == {GoodFeed, WithCRLF(GoodFeed), NoChannelFeed, NoFile}

WorkingTrees ==
    {[p \in Paths |-> CASE p = ProjectPath -> d
                        [] p = ChangelogPath -> c
                        [] p = AppcastPath -> f
                        [] OTHER -> NoFile] :
        d \in Descriptors, c \in Changelogs, f \in Feeds}

\* the keys the script reads with CONFIG[...]
ConfigKeys == {"app_name", "bundle_identifier", "xcode_project", "scheme",
               "website_url", "github_owner", "github_repo"}

\* The configuration file args.config names: not there, empty, not YAML, or
\* a mapping with all the keys or with one of them absent.
GoodConfig == [file |-> "mapping", keys |-> ConfigKeys]
Configs ==
    {[file |-> f, keys |-> {}] : f \in {"missing", "empty", "unparseable"}}
    \cup {[file |-> "mapping", keys |-> ConfigKeys \ lacking] :
              lacking \in {{}} \cup {{k} : k \in ConfigKeys}}

\* load_config: ReleaseError for a file that is missing, empty or not YAML;
\* any other content is wrapped in Config as it is
LoadConfigResult(c) ==
    IF c.file = "mapping" THEN [ok |-> TRUE, config |-> c.keys] ELSE Raised("ReleaseError")

\* the keys a statement of main reads with CONFIG[...] before it has any
\* effect (update_appcast: after the backup and the parse of the feed)
KeysRead(pc, a) ==
    CASE pc = "load_config" -> IF a.quiet THEN {} ELSE {"app_name"}
      [] pc = "get_current_versions" -> {"xcode_project", "bundle_identifier"}
      [] pc = "build_xcode_archive" -> {"app_name", "xcode_project", "scheme"}
      [] pc = "update_appcast" -> {"website_url", "github_owner", "github_repo", "app_name"}
      [] OTHER -> {}

\* Config.__getitem__ raises KeyError in the statement pc
KeyMissing(pc, a) == ~(KeysRead(pc, a) \subseteq a.config.keys)

\* parse_arguments: the options of the command line that steer main; an
\* option that takes a value is given (with a non-empty value) or not
CommandLines == [version_type : VersionTypes, skip_sparkle : BOOLEAN,
                 quiet : BOOLEAN, sentry_org : BOOLEAN, sentry_project : BOOLEAN,
                 config : Configs]

\* the upload done as soon as one of the two options is given
SentryConfiguredEither(a) == a.sentry_org \/ a.sentry_project

\* if args.sentry_org and args.sentry_project
SentryConfigured(a) == a.sentry_org /\ a.sentry_project

ErrorKinds == {"ReleaseError", "Exception", "KeyboardInterrupt"}

\* The statements of the try block of main, in the order it executes them
\* for the command line a.
Statements(a) ==
    <<"parse_arguments", "load_config",
      "validate_tools", "validate_environment", "preflight_checks",
      "show_pre_release_checklist",
      "get_current_versions", "increment_versions",
      IF a.version_type = "skip" THEN "skip_version_update" ELSE "update_project_versions",
      "process_changelog", "build_xcode_archive", "create_and_notarize_dmg">>
    \o (IF a.skip_sparkle THEN <<"skip_sparkle">>
        ELSE <<"unlock_keychain", "sign_update", "update_appcast">>)
    \o <<"verify_release",
         "git_add", "git_commit", "git_tag", "git_push_main", "git_push_tag", "git_return",
         "create_dsyms_zip", "create_github_release",
         IF SentryConfigured(a) THEN "upload_dsyms_to_sentry" ELSE "skip_sentry",
         "show_release_summary">>

\* the element of seq after pc, "done" after the last one
After(seq, pc) ==
    LET i == CHOOSE k \in 1..Len(seq) : seq[k] = pc
    IN IF i = Len(seq) THEN "done" ELSE seq[i + 1]

\* Orders of the statements that main does not have: two statements
\* exchanged, a statement left out, a statement moved behind another.
Swap(seq, x, y) ==
    [i \in 1..Len(seq) |-> IF seq[i] = x THEN y ELSE IF seq[i] = y THEN x ELSE seq[i]]
Without(seq, x) == SelectSeq(seq, LAMBDA e : e # x)
MoveAfter(seq, x, y) ==
    LET rest == Without(seq, x)
        i == CHOOSE k \in 1..Len(rest) : rest[k] = y
    IN SubSeq(rest, 1, i) \o <<x>> \o SubSeq(rest, i + 1, Len(rest))

\* main with the changelog processed after the build
NextPcBuildFirst(pc, a) ==
    After(Swap(Statements(a), "process_changelog", "build_xcode_archive"), pc)
\* create_git_commit_and_tag without the push of the tag
NextPcWithoutTagPush(pc, a) == After(Without(Statements(a), "git_push_tag"), pc)
\* main asking for confirmation only after the changelog was rewritten
NextPcLateChecklist(pc, a) ==
    After(MoveAfter(Statements(a), "show_pre_release_checklist", "process_changelog"), pc)

\* main running the signing and the feed update whatever --skip-sparkle says
NextPcIgnoringSkipSparkle(pc, a) ==
    After(Statements([a EXCEPT !.skip_sparkle = FALSE]), pc)

\* main updating the descriptor whatever the version type is
NextPcIgnoringSkip(pc, a) ==
    After(Statements([a EXCEPT !.version_type = "patch"]), pc)

\* The statement main executes after the one at pc returned.
NextPc(pc, a) == After(Statements(a), pc)

\* The phase of the release a statement of main belongs to.
PhaseOf(pc) ==
    CASE pc \in {"validate_tools", "validate_environment", "preflight_checks"} -> "validation"
      [] pc = "show_pre_release_checklist" -> "checklist"
      [] pc \in {"get_current_versions", "increment_versions", "skip_version_update",
                 "update_project_versions"} -> "version"
      [] pc = "process_changelog" -> "changelog"
      [] pc = "build_xcode_archive" -> "build"
      [] pc = "create_and_notarize_dmg" -> "package"
      [] pc \in {"unlock_keychain", "sign_update", "update_appcast"} -> "feed"
      [] pc = "skip_sparkle" -> "feed_skipped"
      [] pc = "verify_release" -> "verify"
      [] pc \in {"git_add", "git_commit", "git_tag", "git_push_main", "git_push_tag",
                 "git_return"} -> "git"
      [] pc \in {"create_dsyms_zip", "create_github_release"} -> "release"
      [] pc = "upload_dsyms_to_sentry" -> "symbols"
      [] OTHER -> "none"

\* the phases begun so far, once the statement at pc has begun
Begun(started, pc) ==
    IF PhaseOf(pc) = "none" \/ (started # <<>> /\ started[Len(started)] = PhaseOf(pc))
    THEN started
    ELSE Append(started, PhaseOf(pc))

Init ==
    /\ fs \in WorkingTrees
    /\ args \in CommandLines
    /\ backup_files = <<>> /\ created_files = <<>> /\ temp_dirs = <<>>
    /\ rblog = <<>> /\ rollbackCalls = 0
    /\ run = [pc |-> "parse_arguments", exit |-> -1, err |-> "none",
              pushed_to_github |-> FALSE,
              current_project |-> -1, current_marketing |-> <<>>,
              new_project |-> -1, new_marketing |-> <<>>,
              changelog_items |-> <<>>, tasks |-> <<>>, started |-> <<>>,
              report |-> "none", pre_run |-> fs,
              notarization |-> "none", stapled |-> FALSE,
              codesign_status |-> -1, spctl_status |-> -1,
              signed_dmg |-> NoFile, uploaded_dmg |-> NoFile,
              warnings |-> {}, confirmed |-> FALSE, upload |-> "none",
              backups |-> [p \in TrackedFiles |-> 0]]
    /\ git = [staged |-> FALSE, committed |-> FALSE, tagged |-> FALSE,
              pushed_main |-> FALSE, pushed_tag |-> FALSE, released |-> FALSE]
    /\ firstBackup = Idle /\ opsLeft = 0 /\ fin = Idle /\ fout = NotRun

\* main is about to execute the statement pc
At(pc) == run.exit = -1 /\ run.pc = pc

\* The statement at r.pc returned, having left the files as fsys and the
\* ledger as ledger: main goes on to the next statement.
Proceed(r, fsys, ledger) ==
    /\ run' = [r EXCEPT !.pc = NextPc(r.pc, args), !.started = Begun(r.started, r.pc)]
    /\ fs' = fsys
    /\ backup_files' = ledger
    /\ UNCHANGED <<rblog, rollbackCalls>>

\* what the except clause prints about the pushed tag
PushedReport(kind, quiet) ==
    IF kind = "ReleaseError" \/ ~quiet THEN "tag_reported" ELSE "nothing_reported"

\* An except clause of main that exits without calling rollback().
HandlerWithoutRollback(kind, r, fsys, ledger) ==
    /\ run' = [r EXCEPT !.exit = 1, !.err = kind, !.started = Begun(r.started, r.pc),
                        !.report = "failed"]
    /\ fs' = fsys
    /\ backup_files' = ledger
    /\ UNCHANGED <<rblog, rollbackCalls>>

\* Except clauses of main that treat a failure after the push as a success:
\* sys.exit(0) once the tag is public.
HandlerExitZeroAfterPush(kind, r, fsys, ledger) ==
    /\ backup_files' = ledger
    /\ IF r.pushed_to_github
       THEN /\ run' = [r EXCEPT !.exit = 0, !.err = kind,
                                !.started = Begun(r.started, r.pc),
                                !.report = PushedReport(kind, args.quiet)]
            /\ fs' = fsys
            /\ UNCHANGED <<rblog, rollbackCalls>>
       ELSE \E ro \in [1..Len(ledger) -> RestoreOutcomes],
               do \in [1..Len(created_files) -> RemoveOutcomes],
               to \in [1..Len(temp_dirs) -> RemoveOutcomes] :
               LET rb == RollbackResult(fsys, ledger, created_files, temp_dirs, ro, do, to)
               IN /\ fs' = rb.fs
                  /\ rblog' = rb.log
                  /\ rollbackCalls' = rollbackCalls + 1
                  /\ run' = [r EXCEPT !.exit = 1, !.err = kind,
                                      !.started = Begun(r.started, r.pc),
                                      !.report = "failed"]

\* The statement at r.pc raised kind with the files as fsys and the ledger as
\* ledger: the except clauses of main, up to sys.exit(1).
Handler(kind, r, fsys, ledger) ==
    /\ backup_files' = ledger
    /\ IF r.pushed_to_github
       THEN /\ run' = [r EXCEPT !.exit = 1, !.err = kind,
                                !.started = Begun(r.started, r.pc),
                                !.report = PushedReport(kind, args.quiet)]
            /\ fs' = fsys
            /\ UNCHANGED <<rblog, rollbackCalls>>
       ELSE \E ro \in [1..Len(ledger) -> RestoreOutcomes],
               do \in [1..Len(created_files) -> RemoveOutcomes],
               to \in [1..Len(temp_dirs) -> RemoveOutcomes] :
               LET rb == RollbackResult(fsys, ledger, created_files, temp_dirs, ro, do, to)
               IN /\ fs' = rb.fs
                  /\ rblog' = rb.log
                  /\ rollbackCalls' = rollbackCalls + 1
                  /\ run' = [r EXCEPT !.exit = 1, !.err = kind,
                                      !.started = Begun(r.started, r.pc),
                                      !.report = "failed"]

\* variables no statement of main touches
MainFrame == UNCHANGED <<created_files, temp_dirs, args, clientVars, fnVars>>

\* args = parse_arguments(): argparse exits with status 2 on a bad command
\* line (SystemExit passes every except clause of main); mkdir can fail.
ParseArguments ==
    /\ At("parse_arguments")
    /\ \/ Proceed(run, fs, backup_files)
       \/ \E kind \in {"Exception", "KeyboardInterrupt"} : Handler(kind, run, fs, backup_files)
       \/ /\ run' = [run EXCEPT !.exit = 2, !.err = "SystemExit"]
          /\ UNCHANGED <<fs, backup_files, rblog, rollbackCalls>>
    /\ UNCHANGED git /\ MainFrame

\* CONFIG = load_config(args.config) and the banner
LoadConfig ==
    /\ At("load_config")
    /\ LET res == LoadConfigResult(args.config)
       IN \/ /\ res.ok /\ ~KeyMissing("load_config", args)
             /\ Proceed(run, fs, backup_files)
          \/ /\ res.ok /\ KeyMissing("load_config", args)
             /\ Handler("Exception", run, fs, backup_files)
          \/ /\ ~res.ok
             /\ Handler(res.err, run, fs, backup_files)
          \/ Handler("KeyboardInterrupt", run, fs, backup_files)
    /\ UNCHANGED git /\ MainFrame

\* except Exception as e: raise ReleaseError(f"Validation failed: {e}")
WrapValidation(kind) == IF kind = "KeyboardInterrupt" THEN kind ELSE "ReleaseError"

\* the warnings preflight_checks draws from the files of the working tree;
\* those about the git status, the branch, the remote and the disk space
\* depend on nothing the run changes and are left out
PreflightWarnings(fsys) ==
    (IF ~Exists(fsys, ChangelogPath) THEN {"CHANGELOG.md not found"}
     ELSE LET content == ReadText(fsys[ChangelogPath])
          IN IF \A i \in 1..Len(content) : content[i] # "##U"
             THEN {"No Unreleased section"}
             ELSE IF UnreleasedStart(content) # 0 /\ StripCells(UnreleasedGroup(content)) = <<>>
             THEN {"Unreleased section is empty"}
             ELSE {})
    \cup (IF ~Exists(fsys, AppcastPath) THEN {"appcast.xml not found"} ELSE {})

\* one task of run_parallel_tasks: it returns, or what it raises is re-raised
ValidationTask(name) ==
    /\ At(name)
    /\ LET r == [run EXCEPT !.tasks = Append(run.tasks, name),
                            !.warnings = IF name = "preflight_checks"
                                         THEN PreflightWarnings(fs) ELSE @]
       IN \/ Proceed(r, fs, backup_files)
          \/ \E kind \in ErrorKinds : Handler(WrapValidation(kind), r, fs, backup_files)
    /\ UNCHANGED git /\ MainFrame

ValidateTools == ValidationTask("validate_tools")
ValidateEnvironment == ValidationTask("validate_environment")
PreflightChecks == ValidationTask("preflight_checks")

\* if not show_pre_release_checklist(warnings): raise ReleaseError(...)
ShowPreReleaseChecklist ==
    /\ At("show_pre_release_checklist")
    /\ IF args.quiet
       THEN Proceed(run, fs, backup_files)
       ELSE \/ Proceed([run EXCEPT !.confirmed = TRUE], fs, backup_files)
            \/ \E kind \in {"ReleaseError", "KeyboardInterrupt"} :
                  Handler(kind, run, fs, backup_files)
    /\ UNCHANGED git /\ MainFrame

\* current_project, current_marketing = get_current_versions(...)
GetCurrentVersionsStep ==
    /\ At("get_current_versions")
    /\ LET res == GetCurrentVersions(ReadText(fs[ProjectPath]), BundleIdentifier)
       IN \/ /\ KeyMissing("get_current_versions", args)
             /\ Handler("Exception", run, fs, backup_files)
          \/ /\ ~KeyMissing("get_current_versions", args) /\ res.ok
             /\ Proceed([run EXCEPT !.current_project = res.project,
                                    !.current_marketing = res.marketing],
                        fs, backup_files)
          \/ /\ ~KeyMissing("get_current_versions", args) /\ ~res.ok
             /\ Handler(res.err, run, fs, backup_files)
          \/ Handler("KeyboardInterrupt", run, fs, backup_files)
    /\ UNCHANGED git /\ MainFrame

\* new_project, new_marketing = increment_versions(...) and the version table
IncrementVersionsStep ==
    /\ At("increment_versions")
    /\ LET res == IncrementVersions(run.current_project, run.current_marketing,
                                    args.version_type)
       IN \/ /\ res.ok
             /\ Proceed([run EXCEPT !.new_project = res.project,
                                    !.new_marketing = res.marketing],
                        fs, backup_files)
          \/ /\ ~res.ok
             /\ Handler(res.err, run, fs, backup_files)
          \/ Handler("KeyboardInterrupt", run, fs, backup_files)
    /\ UNCHANGED git /\ MainFrame

\* if args.version_type == "skip": the descriptor is left alone
SkipVersionUpdate ==
    /\ At("skip_version_update")
    /\ Proceed(run, fs, backup_files)
    /\ UNCHANGED git /\ MainFrame

\* rollback_manager.backup_file(p) was called once more
BackupCalled(r, p) == [r EXCEPT !.backups[p] = @ + 1]

\* A step that backs a file up and rewrites it can stop after the backup with
\* the file untouched, or in the write, after open(path, "w") truncated it.
Truncated(fsys, p) == [fsys EXCEPT ![p] = <<>>]

\* update_project_versions(project_path, ...)
UpdateProjectVersionsStep ==
    /\ At("update_project_versions")
    /\ LET ledger == UpdatedLedger(fs, backup_files)
       IN \/ Proceed(BackupCalled(run, ProjectPath), UpdatedFile(fs, BundleIdentifier, run.new_project, run.new_marketing),
                     ledger)
          \/ \E kind \in {"Exception", "KeyboardInterrupt"} :
                \/ Handler(kind, BackupCalled(run, ProjectPath), fs, ledger)
                \/ Handler(kind, BackupCalled(run, ProjectPath), Truncated(fs, ProjectPath), ledger)
    /\ UNCHANGED git /\ MainFrame

\* changelog_items = process_changelog(new_project, new_marketing, rollback_manager)
ProcessChangelogStep ==
    /\ At("process_changelog")
    /\ LET ledger == BackupFile(fs, backup_files, ChangelogPath)
           res == ProcessChangelog(ReadText(fs[ChangelogPath]), run.new_project,
                                   run.new_marketing)
       IN \/ /\ res.ok
             /\ Proceed([BackupCalled(run, ChangelogPath) EXCEPT !.changelog_items = res.changelog_items],
                        [fs EXCEPT ![ChangelogPath] = WriteText(res.updated_content)], ledger)
          \/ /\ ~res.ok
             /\ Handler(res.err, BackupCalled(run, ChangelogPath), fs, ledger)
          \/ \E kind \in {"Exception", "KeyboardInterrupt"} :
                \/ Handler(kind, BackupCalled(run, ChangelogPath), fs, ledger)
                \/ /\ res.ok
                   /\ Handler(kind, BackupCalled(run, ChangelogPath), Truncated(fs, ChangelogPath), ledger)
    /\ UNCHANGED git /\ MainFrame

\* app_path = build_xcode_archive(...): nothing it writes is tracked; the
\* xcodebuild command line is built from CONFIG before the command starts
BuildXcodeArchive ==
    /\ At("build_xcode_archive")
    /\ \/ /\ ~KeyMissing("build_xcode_archive", args)
          /\ Proceed(run, fs, backup_files)
       \/ \E kind \in ErrorKinds : Handler(kind, run, fs, backup_files)
    /\ UNCHANGED git /\ MainFrame

\* dmg_path = create_and_notarize_dmg(...): the disk image is created and
\* the staging directory removed; a failure leaves whatever was made so far.
\* what create_dmg, sign_dmg and stapler staple make of the disk image
CreateDmg == <<"image">>
SignDmg(dmg) == dmg \o <<"signature">>
Staple(dmg) == dmg \o <<"ticket">>

\* the image as sign_dmg leaves it, before notarize_dmg
ImageBeforeStapling == SignDmg(CreateDmg)

\* the image create_and_notarize_dmg returns the path of
NotarizedImage == Staple(SignDmg(CreateDmg))

\* dmg_path = create_and_notarize_dmg(...): the image is created and signed,
\* and notarize_dmg, the last call, returns; or one of the calls raises and
\* leaves what was made so far
CreateAndNotarizeDmg ==
    /\ At("create_and_notarize_dmg")
    /\ \/ \E i \in NotarizeInputs :
             /\ NotarizeDmg(i).ok
             /\ Proceed([run EXCEPT !.notarization = i.status,
                                    !.stapled = (i.staple_status = 0)],
                        [fs EXCEPT !["out.dmg"] = NotarizedImage], backup_files)
       \/ \E kind \in ErrorKinds, left \in SUBSET ScratchPaths :
             Handler(kind, run,
                     [p \in Paths |-> IF p \in left THEN TextA ELSE fs[p]], backup_files)
    /\ UNCHANGED git /\ MainFrame

\* if args.skip_sparkle: signing and the feed update are skipped
SkipSparkle ==
    /\ At("skip_sparkle")
    /\ Proceed(run, fs, backup_files)
    /\ UNCHANGED git /\ MainFrame

\* if not unlock_keychain(): raise ReleaseError(...)
UnlockKeychain ==
    /\ At("unlock_keychain")
    /\ \/ Proceed(run, fs, backup_files)
       \/ \E kind \in {"ReleaseError", "KeyboardInterrupt"} :
             Handler(kind, run, fs, backup_files)
    /\ UNCHANGED git /\ MainFrame

\* signature, length = sign_update(dmg_path)
SignUpdate ==
    /\ At("sign_update")
    /\ \/ /\ Exists(fs, "out.dmg")
          /\ Proceed([run EXCEPT !.signed_dmg = fs["out.dmg"]], fs, backup_files)
       \/ \E kind \in ErrorKinds : Handler(kind, run, fs, backup_files)
    /\ UNCHANGED git /\ MainFrame

\* update_appcast(...): backup, parse, insert the item, write
UpdateAppcastStep ==
    /\ At("update_appcast")
    /\ LET ledger == BackupFile(fs, backup_files, AppcastPath)
           res == IF Exists(fs, AppcastPath) THEN UpdateAppcast(fs[AppcastPath])
                  ELSE Raised("Exception")
       IN \/ /\ res.ok /\ ~KeyMissing("update_appcast", args)
             /\ Proceed(BackupCalled(run, AppcastPath), [fs EXCEPT ![AppcastPath] = res.bytes], ledger)
          \/ /\ ~res.ok
             /\ Handler(res.err, BackupCalled(run, AppcastPath), fs, ledger)
          \/ \E kind \in {"Exception", "KeyboardInterrupt"} :
                \/ Handler(kind, BackupCalled(run, AppcastPath), fs, ledger)
                \/ /\ res.ok /\ ~KeyMissing("update_appcast", args)
                   /\ Handler(kind, BackupCalled(run, AppcastPath), Truncated(fs, AppcastPath), ledger)
    /\ UNCHANGED git /\ MainFrame

\* verify_release without the test of the codesign return code
VerifyReleaseResultUnchecked(dmg_exists, codesign_status, spctl_status) ==
    IF ~dmg_exists
    THEN [ok |-> FALSE, err |-> "ReleaseError", codesign_status |-> -1, spctl_status |-> -1]
    ELSE [ok |-> TRUE, codesign_status |-> codesign_status, spctl_status |-> spctl_status]

\* verify_release: the image must exist, codesign --verify must return 0;
\* the return code of spctl and the look into the feed only choose what is
\* printed.  -1 is the status of a command that was not run.
VerifyReleaseResult(dmg_exists, codesign_status, spctl_status) ==
    IF ~dmg_exists
    THEN [ok |-> FALSE, err |-> "ReleaseError", codesign_status |-> -1, spctl_status |-> -1]
    ELSE IF codesign_status # 0
    THEN [ok |-> FALSE, err |-> "ReleaseError", codesign_status |-> codesign_status,
          spctl_status |-> -1]
    ELSE [ok |-> TRUE, codesign_status |-> codesign_status, spctl_status |-> spctl_status]

\* verify_release(dmg_path, new_marketing, new_project)
VerifyRelease ==
    /\ At("verify_release")
    /\ \/ \E codesign_status \in ExitStatuses, spctl_status \in ExitStatuses :
             LET res == VerifyReleaseResult(Exists(fs, "out.dmg"), codesign_status, spctl_status)
                 r == [run EXCEPT !.codesign_status = res.codesign_status,
                                  !.spctl_status = res.spctl_status]
             IN IF res.ok THEN Proceed(r, fs, backup_files)
                ELSE Handler(res.err, r, fs, backup_files)
       \/ \E kind \in {"Exception", "KeyboardInterrupt"} : Handler(kind, run, fs, backup_files)
    /\ UNCHANGED git /\ MainFrame

\* The git commands of create_git_commit_and_tag, one run_command each: the
\* command succeeds and has its effect on the repository or the remote, or
\* run_command raises ReleaseError, or the user interrupts it.
GitEffect(g, pc) ==
    CASE pc = "git_add" -> [g EXCEPT !.staged = TRUE]
      [] pc = "git_commit" -> [g EXCEPT !.committed = TRUE]
      [] pc = "git_tag" -> [g EXCEPT !.tagged = TRUE]
      [] pc = "git_push_main" -> [g EXCEPT !.pushed_main = TRUE]
      [] pc = "git_push_tag" -> [g EXCEPT !.pushed_tag = TRUE]
      [] OTHER -> g

GitCommand(pc) ==
    /\ At(pc)
    /\ \/ /\ Proceed(run, fs, backup_files)
          /\ git' = GitEffect(git, pc)
       \/ /\ \E kind \in {"ReleaseError", "KeyboardInterrupt"} :
                Handler(kind, run, fs, backup_files)
          /\ UNCHANGED git
    /\ MainFrame

GitAdd == GitCommand("git_add")
GitCommit == GitCommand("git_commit")
GitTag == GitCommand("git_tag")
GitPushMain == GitCommand("git_push_main")
GitPushTag == GitCommand("git_push_tag")

\* pushed = True, the end of the progress display, console.print, return,
\* and the assignment tag_name, pushed_to_github = ... in main; an exception
\* or an interrupt before the assignment leaves main's flag as it was.
GitReturn ==
    /\ At("git_return")
    /\ \/ Proceed([run EXCEPT !.pushed_to_github = TRUE], fs, backup_files)
       \/ \E kind \in {"Exception", "KeyboardInterrupt"} :
             Handler(kind, run, fs, backup_files)
    /\ UNCHANGED git /\ MainFrame

\* dsyms_zip_path = create_dsyms_zip(args.archive_path, dmg_path)
CreateDsymsZip ==
    /\ At("create_dsyms_zip")
    /\ \/ Proceed(run, fs, backup_files)
       \/ \E kind \in ErrorKinds : Handler(kind, run, fs, backup_files)
    /\ UNCHANGED git /\ MainFrame

\* release_url = create_github_release(...)
CreateGithubRelease ==
    /\ At("create_github_release")
    /\ \/ /\ Exists(fs, "out.dmg")
          /\ Proceed([run EXCEPT !.uploaded_dmg = fs["out.dmg"]], fs, backup_files)
          /\ git' = [git EXCEPT !.released = TRUE]
       \/ /\ \E kind \in ErrorKinds : Handler(kind, run, fs, backup_files)
          /\ UNCHANGED git
    /\ MainFrame

\* what upload_dsyms_to_sentry returns with: one of its three early returns,
\* the upload done, or the exception of run_command caught and reported
UploadOutcomes == {"sentry-cli not found", "SENTRY_AUTH_TOKEN not set",
                   "dSYMs directory not found", "uploaded", "failed"}

\* upload_dsyms_to_sentry(...): a failed upload is caught inside and only
\* reported; an interrupt is not caught
UploadDsymsToSentry ==
    /\ At("upload_dsyms_to_sentry")
    /\ \/ \E outcome \in UploadOutcomes :
             Proceed([run EXCEPT !.upload = outcome], fs, backup_files)
       \/ Handler("KeyboardInterrupt", run, fs, backup_files)
    /\ UNCHANGED git /\ MainFrame

\* the else branch: the upload is skipped
SkipSentry ==
    /\ At("skip_sentry")
    /\ Proceed(run, fs, backup_files)
    /\ UNCHANGED git /\ MainFrame

\* show_release_summary(...) and the normal end of main
ShowReleaseSummary ==
    /\ At("show_release_summary")
    /\ \/ /\ run' = [run EXCEPT !.pc = NextPc(run.pc, args), !.exit = 0]
          /\ UNCHANGED <<fs, backup_files, rblog, rollbackCalls>>
       \/ \E kind \in {"Exception", "KeyboardInterrupt"} :
             Handler(kind, run, fs, backup_files)
    /\ UNCHANGED git /\ MainFrame

Next ==
    \/ ParseArguments \/ LoadConfig
    \/ ValidateTools \/ ValidateEnvironment \/ PreflightChecks
    \/ ShowPreReleaseChecklist
    \/ GetCurrentVersionsStep \/ IncrementVersionsStep
    \/ SkipVersionUpdate \/ UpdateProjectVersionsStep
    \/ ProcessChangelogStep
    \/ BuildXcodeArchive \/ CreateAndNotarizeDmg
    \/ SkipSparkle \/ UnlockKeychain \/ SignUpdate \/ UpdateAppcastStep
    \/ VerifyRelease
    \/ GitAdd \/ GitCommit \/ GitTag \/ GitPushMain \/ GitPushTag \/ GitReturn
    \/ CreateDsymsZip \/ CreateGithubRelease
    \/ UploadDsymsToSentry \/ SkipSentry
    \/ ShowReleaseSummary

Spec == Init /\ [][Next]_vars

----------------------------------------------------------------------------
(* Properties of a run of main                                             *)

RestoresSucceeded == \A i \in 1..Len(rblog) : rblog[i][1] = "restore" => rblog[i][3] = "ok"

\* C1: once git push origin <tag> has succeeded, rollback() is not invoked
\* in the rest of the run, whatever error ends it.
C1_NoRollbackAfterTagPush ==
    git.pushed_tag => rollbackCalls = 0

\* C2: a ReleaseError, an unexpected exception or an interrupt raised while
\* the point of no return is not passed makes main call rollback() exactly
\* once and exit with status 1; rollback() is not called while the run goes
\* on, nor on a run that ends with success.
C2_RollbackOnceThenExit ==
    /\ (run.exit # -1 /\ run.err \in ErrorKinds /\ ~run.pushed_to_github)
           => (rollbackCalls = 1 /\ run.exit = 1)
    /\ run.exit \in {-1, 0} => rollbackCalls = 0

C2_Witness ==
    /\ run.exit = 1 /\ run.err = "ReleaseError" /\ run.pc = "git_push_tag"
    /\ rollbackCalls = 1 /\ Len(rblog) = 3

\* C3: after a run that failed before the tag was pushed and whose rollback
\* restored every file it tried to, the descriptor, the changelog and the
\* feed hold exactly what they held before the run.
C3_RollbackRestoresPreRunContent ==
    (run.exit = 1 /\ rollbackCalls = 1 /\ ~git.pushed_tag /\ RestoresSucceeded)
        => \A p \in TrackedFiles : fs[p] = run.pre_run[p]

\* C4: pushed_to_github is false when the run starts, is true only when the
\* commit, the tag, the push of the branch and the push of the tag have all
\* succeeded, and once true stays true.
C4_PointOfNoReturnFlag ==
    /\ ~run.pushed_to_github
    /\ [](run.pushed_to_github =>
              (git.committed /\ git.tagged /\ git.pushed_main /\ git.pushed_tag))
    /\ [][run.pushed_to_github => run'.pushed_to_github]_vars

C4_Witness ==
    /\ run.pushed_to_github /\ run.exit = 1 /\ run.pc = "create_github_release"

\* the order of the phases of a release
ExpectedPhases(a) ==
    <<"validation", "checklist", "version", "changelog", "build", "package",
      IF a.skip_sparkle THEN "feed_skipped" ELSE "feed",
      "verify", "git", "release">>
    \o (IF SentryConfigured(a) THEN <<"symbols">> ELSE <<>>)

IsPrefix(s, t) == Len(s) <= Len(t) /\ SubSeq(t, 1, Len(s)) = s

\* C5: the phases begin in the fixed order, each only when main got past all
\* the earlier ones; a run that ends with success went through all of them;
\* the phase a fatal failure happened in is the last one begun, and nothing
\* begins after the run has ended.
C5_PhasesInFixedOrder ==
    /\ [](/\ IsPrefix(run.started, ExpectedPhases(args))
          /\ run.exit = 0 => run.started = ExpectedPhases(args)
          /\ (run.exit = 1 /\ PhaseOf(run.pc) # "none")
                 => run.started[Len(run.started)] = PhaseOf(run.pc))
    /\ [][run.exit # -1 => run'.started = run.started]_vars

C5_Witness ==
    /\ run.exit = 1 /\ run.pc = "verify_release"
    /\ run.started = <<"validation", "checklist", "version", "changelog", "build",
                       "package", "feed", "verify">>

ValidationOrder == <<"validate_tools", "validate_environment", "preflight_checks">>
BeforeConfirmation ==
    {"parse_arguments", "load_config", "validate_tools", "validate_environment",
     "preflight_checks", "show_pre_release_checklist"}

\* C6: until the three validation tasks have succeeded, in the order tools,
\* environment, pre-flight, and the checklist is confirmed, the ledger is
\* empty and the tracked files are as they were; a failing task is the last
\* one run; a failed validation or a declined checklist ends the run with
\* exit status 1, the files untouched.
C6_NothingMutatedBeforeConfirmation ==
    /\ IsPrefix(run.tasks, ValidationOrder)
    /\ run.pc \notin BeforeConfirmation => run.tasks = ValidationOrder
    /\ run.pc \in BeforeConfirmation =>
          /\ backup_files = <<>>
          /\ \A p \in TrackedFiles : fs[p] = run.pre_run[p]
    /\ (run.exit # -1 /\ PhaseOf(run.pc) \in {"validation", "checklist"}) => run.exit = 1
    /\ (run.exit # -1 /\ PhaseOf(run.pc) = "validation")
           => run.tasks[Len(run.tasks)] = run.pc

C6_Witness ==
    /\ run.exit = 1 /\ run.pc = "show_pre_release_checklist" /\ run.err = "ReleaseError"
    /\ run.tasks = ValidationOrder


C14_PushedTagReported ==
    (run.exit = 1 /\ run.pushed_to_github) => run.report = "tag_reported"


\* the statement at pc comes after statement q in the run of main
Past(pc, q, a) ==
    \/ pc = "done"
    \/ LET seq == Statements(a)
           i == CHOOSE k \in 1..Len(seq) : seq[k] = pc
           j == CHOOSE k \in 1..Len(seq) : seq[k] = q
       IN i > j

\* C15: with a configuration file that is missing, empty, not parseable or
\* lacks one of the required keys, the run fails, and at no time has it
\* written the descriptor, the changelog or the feed or got past the build
\* (the first external build, signing or notarization command).
C15_BadConfigFailsBeforeMutation ==
    args.config # GoodConfig =>
        /\ run.exit # 0
        /\ \A p \in TrackedFiles : fs[p] = run.pre_run[p]
        /\ ~Past(run.pc, "build_xcode_archive", args)


FeedStatements == {"unlock_keychain", "sign_update", "update_appcast"}

\* C18: in a run with --skip-sparkle main never gets to the keychain, the
\* signer or update_appcast, the feed file is never backed up and always
\* holds what it held before the run, and the run goes from the packaging
\* to the verification and, when nothing fails, through commit, tag, push
\* and the hosted release.
C18_SkipSparkle ==
    /\ [](args.skip_sparkle =>
            /\ run.pc \notin FeedStatements
            /\ \A i \in 1..Len(run.started) : run.started[i] # "feed"
            /\ AppcastPath \notin LedgerKeys(backup_files)
            /\ fs[AppcastPath] = run.pre_run[AppcastPath]
            /\ run.exit = 0 => (git.released /\ run.started = ExpectedPhases(args)))
    /\ [][(args.skip_sparkle /\ At("create_and_notarize_dmg") /\ run'.exit = -1)
              => run'.pc = "skip_sparkle"]_vars
    /\ [][(args.skip_sparkle /\ At("skip_sparkle"))
              => (run'.exit = -1 /\ run'.pc = "verify_release")]_vars

C18_Witness ==
    /\ args.skip_sparkle /\ run.exit = 0 /\ git.released /\ git.pushed_tag
    /\ Exists(fs, AppcastPath) /\ Exists(fs, "out.dmg")
    /\ run.started = <<"validation", "checklist", "version", "changelog", "build",
                       "package", "feed_skipped", "verify", "git", "release">>

\* C19: whenever main has computed the new version pair, for every version
\* type including skip, the new marketing version is digits.digits.digits.
C19_ComputedVersionThreePart ==
    run.new_marketing # <<>> => IsThreePart(run.new_marketing)


\* C22: in every state before the tag is pushed in which the descriptor, the
\* changelog or the feed differs from what it held before the run, the
\* ledger holds the pre-run content of that file.
C22_BackedUpBeforeFirstWrite ==
    \A p \in TrackedFiles :
        (~git.pushed_tag /\ fs[p] # run.pre_run[p])
            => /\ p \in LedgerKeys(backup_files)
               /\ LedgerGet(backup_files, p) = run.pre_run[p]

\* C30: in a run with version type skip main never gets to
\* update_project_versions, the descriptor is never in the ledger and always
\* holds what it held before the run, the new pair main computed is the pair
\* get_current_versions read from the descriptor, and the changelog is
\* written with the header of that pair.
C30_SkipLeavesDescriptor ==
    /\ [](args.version_type = "skip" =>
            /\ run.pc # "update_project_versions"
            /\ ProjectPath \notin LedgerKeys(backup_files)
            /\ fs[ProjectPath] = run.pre_run[ProjectPath]
            /\ run.new_project # -1 =>
                  /\ run.new_project = run.current_project
                  /\ run.new_marketing = run.current_marketing
                  /\ GetCurrentVersions(ReadText(run.pre_run[ProjectPath]), BundleIdentifier)
                        = [ok |-> TRUE, project |-> run.new_project,
                           marketing |-> run.new_marketing])
    /\ [][(args.version_type = "skip" /\ At("process_changelog")
               /\ run'.exit = -1 /\ run'.pc # run.pc)
              => fs'[ChangelogPath]
                   = WriteText(ProcessChangelog(ReadText(fs[ChangelogPath]), run.current_project,
                                                run.current_marketing).updated_content)]_vars

\* a release with version type skip that went through to the end
C30_Witness ==
    /\ args.version_type = "skip" /\ run.exit = 0 /\ git.pushed_tag
    /\ run.new_project = run.current_project /\ run.new_project # -1
    /\ fs[ChangelogPath] # run.pre_run[ChangelogPath]

\* C31: rollback() is not invoked in a run in which git push origin main
\* has succeeded, whether the push of the tag that follows succeeds or not.
C31_NoRollbackAfterBranchPush ==
    git.pushed_main => rollbackCalls = 0

\* C32: a run that ended with an error before the tag was pushed, and was
\* rolled back, leaves no commit and no tag of its own in the repository.
C32_RollbackLeavesNoCommit ==
    (run.exit # -1 /\ rollbackCalls > 0 /\ ~git.pushed_main)
        => ~git.committed /\ ~git.tagged

\* something of the git phase or the hosted release has happened
Published ==
    \/ git.staged \/ git.committed \/ git.tagged
    \/ git.pushed_main \/ git.pushed_tag \/ git.released

\* C34: git add, commit, tag, the pushes and the hosted release happen only
\* in a run in which notarize_dmg read the status Accepted, stapler staple
\* returned 0 and codesign --verify of verify_release returned 0; and a
\* ReleaseError of verify_release never comes with a codesign status of 0,
\* whatever spctl returned.
C34_PublishedOnlyIfNotarized ==
    /\ Published => /\ run.notarization = "Accepted" /\ run.stapled
                    /\ run.codesign_status = 0
    /\ (run.exit = 1 /\ run.pc = "verify_release" /\ run.err = "ReleaseError")
          => run.codesign_status # 0

\* a release carried through although spctl did not accept the image
C34_Witness ==
    /\ run.exit = 0 /\ git.released /\ git.pushed_tag
    /\ run.notarization = "Accepted" /\ run.stapled
    /\ run.codesign_status = 0 /\ run.spctl_status = 1

\* C35: the image sign_update computes the signature and the length of is
\* the image with the stapled ticket; from then on, while the run goes on
\* or has ended with success, the image file holds that content, and the
\* image given to gh release create is that content.
C35_FeedSignatureOfStapledImage ==
    run.signed_dmg # NoFile =>
        /\ run.stapled
        /\ run.signed_dmg[Len(run.signed_dmg)] = "ticket"
        /\ run.exit \in {-1, 0} => fs["out.dmg"] = run.signed_dmg
        /\ run.uploaded_dmg # NoFile => run.uploaded_dmg = run.signed_dmg

\* a release whose feed entry was written and whose image was uploaded
C35_Witness ==
    /\ run.exit = 0 /\ git.released /\ ~args.skip_sparkle
    /\ run.signed_dmg # NoFile /\ run.uploaded_dmg = run.signed_dmg
    /\ fs[AppcastPath] # run.pre_run[AppcastPath]

\* C36: when preflight_checks returned warnings, a file is backed up or
\* written only after the user answered yes to the checklist, quiet or not.
C36_WarningsNeedConfirmation ==
    (run.warnings # {}
        /\ (backup_files # <<>> \/ \E p \in TrackedFiles : fs[p] # run.pre_run[p]))
      => run.confirmed

\* the text between the opening brace of the k-th buildSettings match and
\* its matching closing brace
SettingsBlock(content, k) ==
    LET start == BlockStarts(content, 1)[k]
    IN PySlice(content, start + 1, FindMatchingBrace(content, start))

\* the matches whose braces balance and whose block holds the exact
\* bundle-identifier assignment
BundleBlocks(content, bundle_identifier) ==
    {k \in 1..Len(BlockStarts(content, 1)) :
        /\ FindMatchingBrace(content, BlockStarts(content, 1)[k]) # -1
        /\ HasBundleId(SettingsBlock(content, k), bundle_identifier)}

\* the values of the assignments  <key><value>;  of a block
FieldValues(block, key, allowed) ==
    {SubSeq(block, i + 1, i + FieldMatchLen(block, i, key, allowed) - 2) :
        i \in FieldMatches(block, key, allowed)}

\* C37: after update_project_versions has written, every buildSettings
\* block with the bundle-identifier assignment carries the new build number
\* and the new marketing version.
C37_EveryBlockCarriesBoth ==
    opsLeft < MaxWrites =>
        \A k \in BundleBlocks(ReadText(fs[ProjectPath]), fin.bundle_identifier) :
            LET block == SettingsBlock(ReadText(fs[ProjectPath]), k)
            IN /\ FieldValues(block, "CPV=", Digits) = {DigitsOf(fin.new_project)}
               /\ FieldValues(block, "MV=", VersionCharSet) = {fin.new_marketing}

\* C37, amended: after update_project_versions has written, in every
\* buildSettings block with the bundle-identifier assignment, the first such
\* block or a later one, each of the two version assignments the block held
\* holds the new value, and a block that lacked one still lacks it.
C37_EveryBlockFieldUpdated ==
    opsLeft < MaxWrites =>
        /\ BundleBlocks(ReadText(fs[ProjectPath]), fin.bundle_identifier)
              = BundleBlocks(fin.content, fin.bundle_identifier)
        /\ \A k \in BundleBlocks(fin.content, fin.bundle_identifier) :
              LET block == SettingsBlock(ReadText(fs[ProjectPath]), k)
                  before == SettingsBlock(fin.content, k)
              IN /\ FieldValues(block, "CPV=", Digits)
                       = IF FieldValues(before, "CPV=", Digits) = {} THEN {}
                         ELSE {DigitsOf(fin.new_project)}
                 /\ FieldValues(block, "MV=", VersionCharSet)
                       = IF FieldValues(before, "MV=", VersionCharSet) = {} THEN {}
                         ELSE {fin.new_marketing}

\* written: a descriptor with two blocks of the bundle identifier, each with
\* both version fields, and the second now carries the new pair
C37_Witness ==
    /\ opsLeft < MaxWrites
    /\ BundleBlocks(fin.content, fin.bundle_identifier) = {1, 2}
    /\ \A k \in {1, 2} :
          /\ FieldValues(SettingsBlock(fin.content, k), "CPV=", Digits) = {OldProject(k)}
          /\ FieldValues(SettingsBlock(fin.content, k), "MV=", VersionCharSet) = {OldMarketing(k)}
    /\ FieldValues(SettingsBlock(ReadText(fs[ProjectPath]), 2), "CPV=", Digits)
          = {DigitsOf(fin.new_project)}
    /\ FieldValues(SettingsBlock(ReadText(fs[ProjectPath]), 2), "MV=", VersionCharSet)
          = {fin.new_marketing}

\* C38: an upload of the debug symbols that failed is not fatal: the run is
\* at the release summary or has returned from it with status 0, the only
\* other end being an exception of the summary itself; and
\* upload_dsyms_to_sentry is called only when both --sentry-org and
\* --sentry-project were given.
C38_UploadFailureNotFatal ==
    /\ run.upload = "failed" =>
          /\ git.released
          /\ run.pc = "show_release_summary" \/ run.exit = 0
          /\ run.exit # 0 => run.pc = "show_release_summary"
    /\ run.upload # "none" => args.sentry_org /\ args.sentry_project

\* the upload failed and main returned with status 0
C38_Witness ==
    run.upload = "failed" /\ run.exit = 0 /\ git.released

\* C39: in every run of main backup_file is called at most once for each of
\* the descriptor, the changelog and the feed, a file that differs from its
\* pre-run content has had its call, and the ledger entry of a path is the
\* content the path had before the run.
C39_OneBackupHoldsPreRun ==
    \A p \in TrackedFiles :
        /\ run.backups[p] <= 1
        /\ fs[p] # run.pre_run[p] => run.backups[p] = 1
        /\ p \in LedgerKeys(backup_files) => LedgerGet(backup_files, p) = run.pre_run[p]

====
